---------------------------- MODULE Spec2Model ----------------------------
(***************************************************************************)
(* A model of the two Ninisite scrapers:                                   *)
(*   src/ninisite_scraper.py     NinisiteScraper   (structural extraction) *)
(*   src/ninisite_scraper_v2.py  NiniesiteScraper  (heuristic scan)        *)
(*                                                                         *)
(* Text is modelled at the character level: a Python str is a sequence of  *)
(* Unicode code points (naturals), so that ranges such as U+0600-U+06FF,   *)
(* whitespace classes, prefixes of 100 characters and lengths of 29/30     *)
(* characters are what they are in the program.  An optional value (a      *)
(* dict key that may be missing, an element that may not be found, None)   *)
(* is a sequence of length 0 (absent) or 1 (present).                      *)
(***************************************************************************)
EXTENDS Integers, Sequences, FiniteSets, TLC

VARIABLES
    pc,          \* position of the operation the specification is running
    pages,       \* v1: list of fetched pages (get_all_pages result)
    all_posts,   \* v1: extract_posts result
    err,         \* message of the exception that ended the operation, "" if none
    steps,       \* v1: the calls scrape_discussion[_streaming] has made so far
    writer,      \* v1: the OrgWriter [output_file, file_handle]
    streaming,   \* v1: main()'s --streaming flag
    paginate,    \* v1: main()'s --paginate flag
    args_out,    \* v1: main()'s --out argument
    metadata,    \* v1: extract_topic_metadata result
    org_content, \* v1: the lines format_org_mode returned (non-streaming)
    output,      \* v1: the lines that reached the output destination
    arg,         \* the argument of the function a specification calls
    ret,         \* the result of the call
    ret2,        \* the result of calling the function again on its result
    hashfn,      \* v2: the process's hash() of str, on the prefixes of the model
    self_posts,  \* v2: self.posts
    self_metadata, \* v2: self.metadata
    v2_local     \* the locals of a running scrape_thread (v2) or get_all_pages (v1)

\* the state of main() around scrape_discussion[_streaming]
mainVars == <<err, steps, writer, streaming, paginate, args_out, metadata,
              org_content, output>>

\* the argument and results of a single function call
fnVars == <<arg, ret, ret2>>

\* the NiniesiteScraper instance and the running scrape_thread
v2Vars == <<hashfn, self_posts, self_metadata, v2_local>>

vars == <<pc, pages, all_posts, mainVars, fnVars, v2Vars>>

-----------------------------------------------------------------------------
(* Characters and strings                                                  *)

None == <<>>
Some(v) == <<v>>
IsSome(o) == Len(o) > 0
Get(o) == o[1]

Min(a, b) == IF a < b THEN a ELSE b
Max(a, b) == IF a > b THEN a ELSE b

\* str.isspace() / regex \s on str: the Unicode whitespace characters
IsSpace(c) ==
    \/ c \in 9..13
    \/ c \in 28..32
    \/ c \in {133, 160, 5760, 8232, 8233, 8239, 8287, 12288}
    \/ c \in 8192..8202

RECURSIVE LStrip(_)
LStrip(s) == IF s # <<>> /\ IsSpace(Head(s)) THEN LStrip(Tail(s)) ELSE s

RECURSIVE RStrip(_)
RStrip(s) ==
    IF s # <<>> /\ IsSpace(s[Len(s)]) THEN RStrip(SubSeq(s, 1, Len(s) - 1)) ELSE s

\* str.strip()
Strip(s) == RStrip(LStrip(s))

\* s[:n]
Prefix(s, n) == SubSeq(s, 1, Min(n, Len(s)))

\* the string made of n copies of s
Rep(s, n) == [i \in 1..(n * Len(s)) |-> s[((i - 1) % Len(s)) + 1]]

\* the characters of s with their positions
Indexed(s) == [i \in 1..Len(s) |-> <<i, s[i]>>]

\* does t occur in s at position i (1-based)
OccursAt(s, t, i) ==
    /\ i >= 1
    /\ i + Len(t) - 1 <= Len(s)
    /\ SubSeq(s, i, i + Len(t) - 1) = t

\* Python's "t in s"
Contains(s, t) == \E i \in 1..(Len(s) + 1) : OccursAt(s, t, i)

\* regex \d on str: decimal digits (ASCII, Arabic-Indic, Extended Arabic-Indic)
IsDigit(c) == c \in 48..57 \/ c \in 1632..1641 \/ c \in 1776..1785

-----------------------------------------------------------------------------
(* Literals                                                                *)

ChSpace == <<32>>
ChNewline == <<10>>
StrTopic == <<116, 111, 112, 105, 99>>             \* "topic"
StrPostDash == <<112, 111, 115, 116, 45>>          \* "post-"
StrPost1 == StrPostDash \o <<49>>                  \* "post-1"
StrPost2 == StrPostDash \o <<50>>                  \* "post-2"
StrPost3 == StrPostDash \o <<51>>                  \* "post-3"
WordSalam == <<1587, 1604, 1575, 1605>>            \* a Persian word (U+0633 U+0644 U+0627 U+0645)
WordHello == <<104, 101, 108, 108, 111>>           \* "hello"

-----------------------------------------------------------------------------
(* v1, NinisiteScraper: structural extraction                              *)
(* A page is what the scraper reads of a fetched document: the title       *)
(* element and the sequence of <article> elements in document order; an    *)
(* article is what extract_post_data and extract_posts read of it.         *)

Page(title, articles) == [title |-> title, articles |-> articles]

\* likes is the text of the span in the like-count link (None: no such
\* element); date is None without a datepublished meta element, Some(None)
\* when the element has no content attribute, Some(Some(text)) otherwise
Article(id, ad, author, message) ==
    [id |-> id, ad |-> ad, author |-> author, message |-> message,
     likes |-> None, date |-> None]

NameAli == <<1593, 1604, 1740>>      \* a name starting with U+0639
NameBob == <<66, 111, 98>>           \* "Bob"

\* the articles the page source of the model can deliver
ArtTopicText ==
    Article(Some(StrTopic), FALSE, Some(NameAli), Some(ChNewline \o WordSalam \o ChSpace))
ArtTopicNoMessage == Article(Some(StrTopic), FALSE, Some(NameAli), None)
ArtTopicBlank == Article(Some(StrTopic), FALSE, None, Some(ChSpace \o ChNewline))
ArtReplyText == Article(Some(StrPost1), FALSE, Some(NameBob \o ChSpace), Some(WordSalam))
ArtReplyBlank == Article(Some(StrPost2), FALSE, Some(NameBob), Some(ChSpace))
ArtReplyNoMessage == Article(Some(StrPost2), FALSE, None, None)
ArtReplyAd == Article(Some(StrPost3), TRUE, Some(NameAli), Some(WordHello))
ArtReplyHello == Article(Some(StrPost2), FALSE, Some(NameAli), Some(WordHello \o ChNewline))

\* articles with a like-count and a datepublished element: 5 likes and a
\* timestamp; a like count that is not a number ("1.2k") and a meta element
\* without content attribute
ArtReplyLiked ==
    [ Article(Some(StrPost3), FALSE, Some(NameBob), Some(WordSalam))
        EXCEPT !.likes = Some(<<32, 53>>),
               !.date = Some(Some(<<55, 47, 52, 47, 50, 48, 50, 51, 32, 56, 58, 48, 50, 58, 52, 56, 32, 65, 77>>)) ]
ArtReplyBadLikes ==
    [ Article(Some(StrPost3), FALSE, Some(NameAli), Some(WordSalam))
        EXCEPT !.likes = Some(<<49, 46, 50, 107>>), !.date = Some(None) ]
\* articles whose author is named 'Unknown', and without author element
ArtReplyUnknown ==
    Article(Some(StrPost1), FALSE, Some(<<85, 110, 107, 110, 111, 119, 110>>), Some(WordHello))
ArtReplyNoAuthor == Article(Some(StrPost2), FALSE, None, Some(WordHello))

Articles ==
    { ArtTopicText, ArtTopicNoMessage, ArtTopicBlank,
      ArtReplyText, ArtReplyBlank, ArtReplyNoMessage, ArtReplyAd, ArtReplyHello }

\* Python truthiness of post.get(key) for a str-valued key
Truthy(o) == IsSome(o) /\ Get(o) # <<>>

\* The mutant of ExtractKeep: every post is returned
ExtractKeepAlways(post) == TRUE

\* line 313: post.get('content') or post.get('is_main_topic')
ExtractKeep(post) == Truthy(post.content) \/ post.is_main_topic

\* extract_post_data(article, is_main_topic): None, or Some(post); the post has
\* no 'page' yet (page 0 stands for the missing key)
extract_post_data(article, is_main_topic) ==
    LET post == [ id |-> IF Truthy(article.id) THEN article.id ELSE None,
                  author |-> IF IsSome(article.author)
                             THEN Some(Strip(Get(article.author)))
                             ELSE None,
                  content |-> IF IsSome(article.message)
                              THEN Some(Strip(Get(article.message)))
                              ELSE None,
                  likes |-> IF IsSome(article.likes)
                            THEN Some(Strip(Get(article.likes)))
                            ELSE None,
                  date |-> article.date,
                  is_main_topic |-> is_main_topic,
                  page |-> 0 ]
    IN  IF ExtractKeep(post) THEN Some(post) ELSE None

\* re.compile(r'post-\d+') searched in the id attribute
MatchesPostId(id) ==
    \E i \in 1..Len(id) :
        /\ OccursAt(id, StrPostDash, i)
        /\ i + 5 <= Len(id)
        /\ IsDigit(id[i + 5])

\* soup.find('article', id='topic'): the first such article, or None
FindTopic(arts) ==
    LET hits == { i \in 1..Len(arts) : arts[i].id = Some(StrTopic) }
    IN  IF hits = {} THEN None
        ELSE Some(arts[CHOOSE i \in hits : \A j \in hits : i <= j])

\* The mutant of TopicPosts: the main topic is looked for on every page
TopicPostsEveryPage(arts, page_num) ==
    LET topic_article == FindTopic(arts)
    IN  IF IsSome(topic_article)
        THEN LET post == extract_post_data(Get(topic_article), TRUE)
             IN  IF IsSome(post) THEN <<[Get(post) EXCEPT !.page = page_num]>> ELSE <<>>
        ELSE <<>>

\* lines 223-229: the main topic, only on the first page
TopicPosts(arts, page_num) ==
    IF page_num = 1
    THEN LET topic_article == FindTopic(arts)
         IN  IF IsSome(topic_article)
             THEN LET post == extract_post_data(Get(topic_article), TRUE)
                  IN  IF IsSome(post) THEN <<[Get(post) EXCEPT !.page = page_num]>>
                      ELSE <<>>
             ELSE <<>>
    ELSE <<>>

\* The mutant of ReplyPosts: a later article's post is put before the earlier ones
RECURSIVE ReplyPostsReversed(_, _, _)
ReplyPostsReversed(arts, page_num, i) ==
    IF i > Len(arts) THEN <<>>
    ELSE LET article == arts[i]
             rest == ReplyPostsReversed(arts, page_num, i + 1)
         IN  IF ~(IsSome(article.id) /\ MatchesPostId(Get(article.id))) THEN rest
             ELSE IF article.ad THEN rest
             ELSE LET post == extract_post_data(article, FALSE)
                  IN  IF IsSome(post)
                      THEN rest \o <<[Get(post) EXCEPT !.page = page_num]>>
                      ELSE rest

\* The mutant of ReplyPosts: the class 'forum-native-ad' is not looked at
RECURSIVE ReplyPostsKeepAds(_, _, _)
ReplyPostsKeepAds(arts, page_num, i) ==
    IF i > Len(arts) THEN <<>>
    ELSE LET article == arts[i]
             rest == ReplyPostsKeepAds(arts, page_num, i + 1)
         IN  IF ~(IsSome(article.id) /\ MatchesPostId(Get(article.id))) THEN rest
             ELSE LET post == extract_post_data(article, FALSE)
                  IN  IF IsSome(post)
                      THEN <<[Get(post) EXCEPT !.page = page_num]>> \o rest
                      ELSE rest

\* lines 232-241: the reply articles of one page from position i on
RECURSIVE ReplyPosts(_, _, _)
ReplyPosts(arts, page_num, i) ==
    IF i > Len(arts) THEN <<>>
    ELSE LET article == arts[i]
             rest == ReplyPosts(arts, page_num, i + 1)
         IN  IF ~(IsSome(article.id) /\ MatchesPostId(Get(article.id))) THEN rest
             ELSE IF article.ad THEN rest
             ELSE LET post == extract_post_data(article, FALSE)
                  IN  IF IsSome(post)
                      THEN <<[Get(post) EXCEPT !.page = page_num]>> \o rest
                      ELSE rest

\* extract_posts(pages), from page number page_num on
RECURSIVE ExtractPostsFrom(_, _)
ExtractPostsFrom(pgs, page_num) ==
    IF page_num > Len(pgs) THEN <<>>
    ELSE TopicPosts(pgs[page_num].articles, page_num)
         \o ReplyPosts(pgs[page_num].articles, page_num, 1)
         \o ExtractPostsFrom(pgs, page_num + 1)

\* The mutant of extract_posts: only the first page is read
extract_posts_first_page(pgs) == ExtractPostsFrom(SubSeq(pgs, 1, Min(1, Len(pgs))), 1)

\* extract_posts(pages)
extract_posts(pgs) == ExtractPostsFrom(pgs, 1)

-----------------------------------------------------------------------------
(* Specification SpecV1: the page source delivers pages, extract_posts     *)
(* assembles the post list.                                                *)

MaxPages == 2       \* pages the page source delivers
MaxArticles == 3    \* articles over all the pages

\* all sequences over S of length at most n
SeqsUpTo(S, n) == UNION { [1..k -> S] : k \in 0..n }

RECURSIVE TotalArticles(_)
TotalArticles(pgs) ==
    IF pgs = <<>> THEN 0 ELSE Len(Head(pgs).articles) + TotalArticles(Tail(pgs))

NoWriter == [output_file |-> None, file_handle |-> "none"]
NoMetadata == [title |-> None, author |-> None]

\* The result of a call: the value returned, or the exception that escaped
Returned(v) == [raised |-> FALSE, value |-> v]
Raised == [raised |-> TRUE, value |-> <<>>]

\* the value of the variables of a part of the program that does not run
FnIdle ==
    /\ arg = None
    /\ ret = Returned(<<>>)
    /\ ret2 = Returned(<<>>)

V2Idle ==
    /\ hashfn = <<>>
    /\ self_posts = <<>>
    /\ self_metadata = None
    /\ v2_local = None

V1Idle ==
    /\ pages = <<>>
    /\ all_posts = <<>>

MainIdle ==
    /\ err = ""
    /\ steps = <<>>
    /\ writer = NoWriter
    /\ streaming = FALSE
    /\ paginate = FALSE
    /\ args_out = None
    /\ metadata = NoMetadata
    /\ org_content = None
    /\ output = <<>>

InitV1 ==
    /\ pc = "fetching"
    /\ pages = <<>>
    /\ all_posts = <<>>
    /\ MainIdle
    /\ FnIdle
    /\ V2Idle

\* the page source delivers one more page
V1FetchPage ==
    /\ pc = "fetching"
    /\ Len(pages) < MaxPages
    /\ \E arts \in SeqsUpTo(Articles, MaxArticles - TotalArticles(pages)) :
           pages' = Append(pages, Page(None, arts))
    /\ UNCHANGED <<pc, all_posts, mainVars, fnVars, v2Vars>>

\* extract_posts(pages)
V1ExtractPosts ==
    /\ pc = "fetching"
    /\ all_posts' = extract_posts(pages)
    /\ pc' = "extracted"
    /\ UNCHANGED <<pages, mainVars, fnVars, v2Vars>>

NextV1 == V1FetchPage \/ V1ExtractPosts

SpecV1 == InitV1 /\ [][NextV1]_vars

\* the indices of the main-topic posts of a post list
MainTopicIndices(posts) == { i \in 1..Len(posts) : posts[i].is_main_topic }

\* C1 as stated: for any non-empty sequence of pages the post list has
\* exactly one main-topic post, at index 0, whether or not page 1 contains
\* a main-topic unit.
C1_Original ==
    (pc = "extracted" /\ Len(pages) >= 1) => MainTopicIndices(all_posts) = {1}

\* C1 (amended): for any non-empty sequence of pages the post list has
\* exactly one main-topic post, first in the list, when page 1 contains an
\* article with id 'topic', and no main-topic post when page 1 contains
\* none, whatever the later pages contain.
C1_MainTopicFirstIfPresent ==
    (pc = "extracted" /\ Len(pages) >= 1) =>
        MainTopicIndices(all_posts) =
            IF IsSome(FindTopic(pages[1].articles)) THEN {1} ELSE {}

\* C1 witness: two pages, page 1 with replies before its topic article,
\* page 2 with a topic article of its own; one main-topic post, first.
C1_Witness ==
    /\ pc = "extracted"
    /\ Len(pages) = 2
    /\ Len(pages[1].articles) >= 2
    /\ pages[1].articles[1] = ArtReplyText
    /\ IsSome(FindTopic(pages[1].articles))
    /\ IsSome(FindTopic(pages[2].articles))
    /\ Len(all_posts) >= 2
    /\ MainTopicIndices(all_posts) = {1}

\* C10: every post of the list built by extract_posts has non-empty content
\* or is the main topic; a reply article without a content container or
\* with blank content yields no post; the main-topic article of page 1 is
\* kept even when its content is empty or missing.
C10_ExtractableOnly ==
    pc = "extracted" =>
        /\ \A i \in 1..Len(all_posts) :
               Truthy(all_posts[i].content) \/ all_posts[i].is_main_topic
        /\ \A i \in 1..Len(all_posts) :
               ~all_posts[i].is_main_topic =>
                   \E k \in 1..Len(pages[all_posts[i].page].articles) :
                       LET a == pages[all_posts[i].page].articles[k]
                       IN  /\ a.id = all_posts[i].id
                           /\ IsSome(a.message)
                           /\ Strip(Get(a.message)) = Get(all_posts[i].content)
                           /\ Strip(Get(a.message)) # <<>>
        /\ (Len(pages) >= 1 /\ IsSome(FindTopic(pages[1].articles))) =>
               /\ Len(all_posts) >= 1
               /\ all_posts[1].is_main_topic

\* C10 witness: the main topic without content is kept next to a reply with
\* blank content and a reply without container, which are dropped
C10_Witness ==
    /\ pc = "extracted"
    /\ pages = << Page(None, <<ArtTopicNoMessage, ArtReplyBlank, ArtReplyNoMessage>>) >>
    /\ Len(all_posts) = 1
    /\ all_posts[1].is_main_topic
    /\ all_posts[1].content = None

\* the reply articles of a page that yield a post, in document order: the id
\* matches post-<digits>, the class list has no 'forum-native-ad', and the
\* message container has text
IsKeptReply(a) ==
    /\ IsSome(a.id)
    /\ MatchesPostId(Get(a.id))
    /\ ~a.ad
    /\ IsSome(a.message)
    /\ Strip(Get(a.message)) # <<>>

\* does post carry what extract_post_data reads of article a
PostOfArticle(post, a) ==
    /\ post.id = a.id
    /\ post.content = Some(Strip(Get(a.message)))
    /\ post.author = (IF IsSome(a.author) THEN Some(Strip(Get(a.author))) ELSE None)

\* the replies of page p in a post list, in list order
RepliesOfPage(posts, p) ==
    LET OnPage(post) == post.page = p /\ ~post.is_main_topic
    IN  SelectSeq(posts, OnPage)

\* C11: the post list of extract_posts is in page order and, within a page,
\* in document order: every post's page is the 1-based index of the page it
\* came from, pages are non-decreasing along the list, the replies of a page
\* are the posts of its reply articles in the order of the articles, and the
\* main topic of page 1 comes before all replies of page 1.
C11_PageThenDocumentOrder ==
    pc = "extracted" =>
        /\ \A i \in 1..Len(all_posts) : all_posts[i].page \in 1..Len(pages)
        /\ \A i, j \in 1..Len(all_posts) :
               i < j => all_posts[i].page <= all_posts[j].page
        /\ \A p \in 1..Len(pages) :
               LET replies == RepliesOfPage(all_posts, p)
                   units == SelectSeq(pages[p].articles, IsKeptReply)
               IN  /\ Len(replies) = Len(units)
                   /\ \A k \in 1..Len(units) : PostOfArticle(replies[k], units[k])
        /\ \A i \in 1..Len(all_posts) :
               all_posts[i].is_main_topic => (i = 1 /\ all_posts[i].page = 1)

\* C11 witness: page 1 has the reply post-2 before the reply post-1, page 2
\* has the reply post-2; the list is post-2, post-1 of page 1, then post-2
\* of page 2
C11_Witness ==
    /\ pc = "extracted"
    /\ Len(pages) = 2
    /\ pages[1].articles = <<ArtReplyHello, ArtReplyText>>
    /\ pages[2].articles = <<ArtReplyHello>>
    /\ Len(all_posts) = 3
    /\ all_posts[1].id = Some(StrPost2) /\ all_posts[1].page = 1
    /\ all_posts[2].id = Some(StrPost1) /\ all_posts[2].page = 1
    /\ all_posts[3].id = Some(StrPost2) /\ all_posts[3].page = 2

\* the articles of a page without the ones marked as advertisement
WithoutAds(pgs) ==
    LET NotAd(a) == ~a.ad
    IN  [p \in 1..Len(pgs) |-> Page(pgs[p].title, SelectSeq(pgs[p].articles, NotAd))]

\* C12: no reply article of class 'forum-native-ad' is in the post list of
\* extract_posts, on any page: every reply post comes from an article of its
\* page that is not an advertisement; and the list is the one the same pages
\* give with the advertisement articles taken out, so skipping one neither
\* drops nor reorders the other articles.
C12_AdsSkippedOnly ==
    pc = "extracted" =>
        /\ \A i \in 1..Len(all_posts) :
               ~all_posts[i].is_main_topic =>
                   \E k \in 1..Len(pages[all_posts[i].page].articles) :
                       LET a == pages[all_posts[i].page].articles[k]
                       IN  ~a.ad /\ IsSome(a.message) /\ PostOfArticle(all_posts[i], a)
        /\ all_posts = extract_posts(WithoutAds(pages))

\* C12 witness: an advertisement between two replies of a page; the two
\* replies are in the list, in their order, and nothing else
C12_Witness ==
    /\ pc = "extracted"
    /\ Len(pages) = 1
    /\ pages[1].articles = <<ArtReplyHello, ArtReplyAd, ArtReplyText>>
    /\ Len(all_posts) = 2
    /\ all_posts[1].id = Some(StrPost2)
    /\ all_posts[2].id = Some(StrPost1)

\* C14 as stated: no two posts of the list built by extract_posts carry the
\* same id, for any sequence of pages, including pages that repeat an
\* article of an earlier page.
C14_IdsUnique ==
    pc = "extracted" =>
        \A i, j \in 1..Len(all_posts) :
            (i < j /\ IsSome(all_posts[i].id)) => all_posts[i].id # all_posts[j].id

-----------------------------------------------------------------------------
(* v1: format_author_name                                                  *)

ChRLI == <<8295>>    \* U+2067 RIGHT-TO-LEFT ISOLATE
ChPDI == <<8297>>    \* U+2069 POP DIRECTIONAL ISOLATE

\* The mutant of IsPersianChar: the Arabic Supplement range is forgotten
IsPersianCharNoSupplement(c) ==
    \/ c \in 1536..1791
    \/ c \in 64336..65023
    \/ c \in 65136..65279

\* lines 369-374: the first character is Persian/Arabic
IsPersianChar(c) ==
    \/ c \in 1536..1791      \* U+0600-U+06FF Arabic
    \/ c \in 1872..1919      \* U+0750-U+077F Arabic Supplement
    \/ c \in 64336..65023    \* U+FB50-U+FDFF Arabic Presentation Forms-A
    \/ c \in 65136..65279    \* U+FE70-U+FEFF Arabic Presentation Forms-B

\* format_author_name(author)
format_author_name(author) ==
    IF author = <<>> THEN author
    ELSE IF IsPersianChar(author[1]) THEN ChRLI \o author \o ChPDI
    ELSE author

-----------------------------------------------------------------------------
(* v1: parse_date_to_jalali                                                *)
(* datetime.strptime(date_str, "%m/%d/%Y %I:%M:%S %p") is modelled by the  *)
(* regular expression _strptime builds for the format (matched from the    *)
(* start, the whole string consumed) and the range checks of datetime.     *)

StrJalali == <<106, 97, 108, 97, 108, 105, 58>>    \* "jalali:"
StrNone == <<78, 111, 110, 101>>                   \* "None"
ChSlash == <<47>>
ChColon == <<58>>
ChZero == <<48>>

DigitVal(c) ==
    IF c \in 48..57 THEN c - 48
    ELSE IF c \in 1632..1641 THEN c - 1632
    ELSE c - 1776

\* int(t) for a string of decimal digits
RECURSIVE IntVal(_)
IntVal(t) ==
    IF t = <<>> THEN 0
    ELSE 10 * IntVal(SubSeq(t, 1, Len(t) - 1)) + DigitVal(t[Len(t)])

\* str(n) for n >= 0
RECURSIVE IntToStr(_)
IntToStr(n) ==
    IF n < 10 THEN <<48 + n>> ELSE IntToStr(n \div 10) \o <<48 + (n % 10)>>

\* f"{n:0{w}d}": the sign, then zeros up to the width
ZeroPad(n, w) ==
    LET t == IntToStr(IF n < 0 THEN -n ELSE n)
        k == IF n < 0 THEN w - 1 ELSE w
        z == IF Len(t) >= k THEN t ELSE Rep(ChZero, k - Len(t)) \o t
    IN  IF n < 0 THEN <<45>> \o z ELSE z

\* the position after the run of digits that starts at position i
RECURSIVE DigitsEnd(_, _)
DigitsEnd(s, i) ==
    IF i <= Len(s) /\ IsDigit(s[i]) THEN DigitsEnd(s, i + 1) ELSE i

\* the position after the run of whitespace that starts at position i
RECURSIVE SpacesEnd(_, _)
SpacesEnd(s, i) ==
    IF i <= Len(s) /\ IsSpace(s[i]) THEN SpacesEnd(s, i + 1) ELSE i

\* %m and %I: 1[0-2]|0[1-9]|[1-9]
MatchMonth(t) ==
    \/ Len(t) = 2 /\ t[1] = 49 /\ t[2] \in 48..50
    \/ Len(t) = 2 /\ t[1] = 48 /\ t[2] \in 49..57
    \/ Len(t) = 1 /\ t[1] \in 49..57

\* %d without its " [1-9]" alternative: 3[0-1]|[1-2]\d|0[1-9]|[1-9]
MatchDay(t) ==
    \/ Len(t) = 2 /\ t[1] = 51 /\ t[2] \in 48..49
    \/ Len(t) = 2 /\ t[1] \in 49..50 /\ IsDigit(t[2])
    \/ Len(t) = 2 /\ t[1] = 48 /\ t[2] \in 49..57
    \/ Len(t) = 1 /\ t[1] \in 49..57

\* %M: [0-5]\d|\d
MatchMinute(t) ==
    \/ Len(t) = 2 /\ t[1] \in 48..53 /\ IsDigit(t[2])
    \/ Len(t) = 1

\* %S: 6[0-1]|[0-5]\d|\d
MatchSecond(t) ==
    \/ Len(t) = 2 /\ t[1] = 54 /\ t[2] \in 48..49
    \/ Len(t) = 2 /\ t[1] \in 48..53 /\ IsDigit(t[2])
    \/ Len(t) = 1

IsLeap(y) == (y % 4 = 0 /\ y % 100 # 0) \/ y % 400 = 0

DaysInMonth(y, m) ==
    IF m = 2 THEN (IF IsLeap(y) THEN 29 ELSE 28)
    ELSE IF m \in {4, 6, 9, 11} THEN 30
    ELSE 31

StrptimeFailed == [ok |-> FALSE, year |-> 0, month |-> 0, day |-> 0, hour |-> 0, minute |-> 0]

\* the positions the pattern of "%m/%d/%Y %I:%M:%S %p" reaches in s, one
\* after the other: the end of the month digits, the start and the end of
\* the day digits (%d also takes a space and one digit), the end of the year
\* digits, the start and the end of the hour digits, the ends of the minute
\* and of the second digits, the start of AM/PM
StrptimeNextPos(s, p) ==
    CASE Len(p) = 0 -> DigitsEnd(s, 1)
      [] Len(p) = 1 -> IF p[1] + 1 <= Len(s) /\ s[p[1] + 1] = 32 THEN p[1] + 2 ELSE p[1] + 1
      [] Len(p) = 2 -> DigitsEnd(s, p[2])
      [] Len(p) = 3 -> DigitsEnd(s, p[3] + 1)
      [] Len(p) = 4 -> SpacesEnd(s, p[4])
      [] Len(p) = 5 -> DigitsEnd(s, p[5])
      [] Len(p) = 6 -> DigitsEnd(s, p[6] + 1)
      [] Len(p) = 7 -> DigitsEnd(s, p[7] + 1)
      [] OTHER -> SpacesEnd(s, p[8])

RECURSIVE StrptimePositions(_, _)
StrptimePositions(s, p) ==
    IF Len(p) = 9 THEN p ELSE StrptimePositions(s, Append(p, StrptimeNextPos(s, p)))

\* the match of the pattern at the positions p, and the range tests of datetime
StrptimeAt(s, p) ==
    LET e1 == p[1]
        fm == SubSeq(s, 1, p[1] - 1)
        sp == p[2] = p[1] + 2
        e2 == p[3]
        fd == SubSeq(s, p[2], p[3] - 1)
        e3 == p[4]
        fy == SubSeq(s, p[3] + 1, p[4] - 1)
        i4 == p[5]
        e4 == p[6]
        fI == SubSeq(s, p[5], p[6] - 1)
        e5 == p[7]
        fM == SubSeq(s, p[6] + 1, p[7] - 1)
        e6 == p[8]
        fS == SubSeq(s, p[7] + 1, p[8] - 1)
        i7 == p[9]
        matches ==
            /\ MatchMonth(fm)
            /\ e1 <= Len(s) /\ s[e1] = 47
            /\ IF sp THEN Len(fd) = 1 /\ fd[1] \in 49..57 ELSE MatchDay(fd)
            /\ e2 <= Len(s) /\ s[e2] = 47
            /\ Len(fy) = 4
            /\ i4 > e3
            /\ MatchMonth(fI)
            /\ e4 <= Len(s) /\ s[e4] = 58
            /\ MatchMinute(fM)
            /\ e5 <= Len(s) /\ s[e5] = 58
            /\ MatchSecond(fS)
            /\ i7 > e6
            /\ i7 + 1 = Len(s)
            /\ s[i7] \in {65, 97, 80, 112}
            /\ s[i7 + 1] \in {77, 109}
        pm == s[i7] \in {80, 112}
        h12 == IntVal(SubSeq(s, p[5], p[6] - 1))
    IN  IF ~matches THEN StrptimeFailed
        ELSE IF \/ IntVal(fy) < 1
                \/ IntVal(fd) > DaysInMonth(IntVal(fy), IntVal(fm))
                \/ IntVal(fS) > 59
        THEN StrptimeFailed
        ELSE [ ok |-> TRUE, year |-> IntVal(fy), month |-> IntVal(fm),
               day |-> IntVal(fd),
               hour |-> IF pm THEN (IF h12 = 12 THEN 12 ELSE h12 + 12)
                        ELSE (IF h12 = 12 THEN 0 ELSE h12),
               minute |-> IntVal(fM) ]

\* datetime.strptime(s, "%m/%d/%Y %I:%M:%S %p"): ok = FALSE stands for the
\* ValueError it raises
Strptime(s) == StrptimeAt(s, StrptimePositions(s, <<>>))

\* pytz's DstTzInfo.localize adds and subtracts a day: OverflowError on the
\* first and the last day datetime can represent
LocalizeRaises(dt) ==
    \/ dt.year = 1 /\ dt.month = 1 /\ dt.day = 1
    \/ dt.year = 9999 /\ dt.month = 12 /\ dt.day = 31

\* The mutant of JalaliYear: March 21 is before the boundary
JalaliYearAfterBoundary(year, month, day) ==
    IF month < 3 \/ (month = 3 /\ day <= 21) THEN year - 621 ELSE year - 620

\* line 335
JalaliYear(year, month, day) ==
    IF month < 3 \/ (month = 3 /\ day < 21) THEN year - 621 ELSE year - 620

\* f"{date_str}" of the fallback: str(None) is "None"
StrOf(date_str) == IF IsSome(date_str) THEN Get(date_str) ELSE StrNone

\* The mutant of parse_date_to_jalali: no try/except around the conversion
parse_date_to_jalali_no_except(date_str) ==
    IF ~IsSome(date_str) THEN Raised
    ELSE LET dt == Strptime(Get(date_str))
         IN  IF ~dt.ok \/ LocalizeRaises(dt) THEN Raised
             ELSE Returned(StrJalali
                     \o ZeroPad(JalaliYear(dt.year, dt.month, dt.day), 4) \o ChSlash
                     \o ZeroPad(dt.month, 2) \o ChSlash \o ZeroPad(dt.day, 2) \o ChSlash
                     \o ZeroPad(dt.hour, 2) \o ChColon \o ZeroPad(dt.minute, 2))

\* parse_date_to_jalali(date_str); date_str is optional: None is the value of
\* a 'date' key taken from a <meta> without content attribute.  strptime
\* raises TypeError for None and ValueError for text it cannot convert; the
\* bare except returns the fallback for both.
parse_date_to_jalali(date_str) ==
    IF ~IsSome(date_str) THEN Returned(StrJalali \o StrOf(date_str))
    ELSE LET dt == Strptime(Get(date_str))
         IN  IF ~dt.ok \/ LocalizeRaises(dt)
             THEN Returned(StrJalali \o StrOf(date_str))
             ELSE Returned(StrJalali
                     \o ZeroPad(JalaliYear(dt.year, dt.month, dt.day), 4) \o ChSlash
                     \o ZeroPad(dt.month, 2) \o ChSlash \o ZeroPad(dt.day, 2) \o ChSlash
                     \o ZeroPad(dt.hour, 2) \o ChColon \o ZeroPad(dt.minute, 2))

-----------------------------------------------------------------------------
(* Specification SpecAuthor: format_author_name is called on a name        *)

MaxNameLen == 2    \* characters of an author name

\* the characters at and around the ends of the four ranges, 'A', and RLI
NameChars ==
    { 65, 8295,
      1535, 1536, 1791, 1792,
      1871, 1872, 1919, 1920,
      64335, 64336, 65023, 65024,
      65135, 65136, 65279, 65280 }

InitAuthor ==
    /\ pc = "call"
    /\ arg \in SeqsUpTo(NameChars, MaxNameLen)
    /\ ret = Returned(<<>>)
    /\ ret2 = Returned(<<>>)
    /\ V1Idle
    /\ MainIdle
    /\ V2Idle

CallFormatAuthorName ==
    /\ pc = "call"
    /\ ret' = Returned(format_author_name(arg))
    /\ pc' = "returned"
    /\ UNCHANGED <<arg, ret2, pages, all_posts, mainVars, v2Vars>>

NextAuthor == CallFormatAuthorName

SpecAuthor == InitAuthor /\ [][NextAuthor]_vars

\* the right-to-left ranges of C8
InRtlRanges(c) ==
    \/ (1536 <= c /\ c <= 1791)       \* U+0600-06FF
    \/ (1872 <= c /\ c <= 1919)       \* U+0750-077F
    \/ (64336 <= c /\ c <= 65023)     \* U+FB50-FDFF
    \/ (65136 <= c /\ c <= 65279)     \* U+FE70-FEFF

\* C8: format_author_name returns U+2067 + name + U+2069 exactly when the
\* first character of the name lies in one of the four right-to-left
\* ranges; every other name, the empty one included, is returned unchanged;
\* the characters after the first play no part.
C8_WrapIffFirstCharRtl ==
    pc = "returned" =>
        /\ ~ret.raised
        /\ ret.value =
             IF Len(arg) > 0 /\ InRtlRanges(arg[1])
             THEN <<8295>> \o arg \o <<8297>>
             ELSE arg

\* C8 witness: a name whose first character is in the Arabic Supplement and
\* whose second is Latin has been wrapped
C8_Witness ==
    /\ pc = "returned"
    /\ arg = <<1872, 65>>
    /\ ret.value = <<8295, 1872, 65, 8297>>

-----------------------------------------------------------------------------
(* Specification SpecDate: parse_date_to_jalali is called on a timestamp   *)

StrGarbage == <<103, 97, 114, 98, 97, 103, 101>>    \* "garbage"
FieldTail == <<58, 48, 50, 58, 52, 56>>             \* ":02:48"

\* the fields the timestamps of the model are made of: text that fits the
\* field of the pattern M/D/YYYY h:mm:ss AM/PM, and text that does not
GoodMonths == { <<55>>, <<49, 50>>, <<51>>, <<49>> }       \* "7", "12", "3", "1"
BadMonths == { <<49, 51>> }                               \* "13"
GoodDays == { <<52>>, <<50, 49>>, <<51, 49>> }            \* "4", "21", "31"
BadDays == { <<51, 50>> }                                 \* "32"
GoodYears == { <<50, 48, 50, 51>>, <<49, 57, 57, 57>> }   \* "2023", "1999"
BadYears == { <<50, 51>> }                                \* "23"
GoodHours == { <<56>>, <<49, 50>> }                       \* "8", "12"
BadHours == { <<48>> }                                    \* "0"
GoodAmPm == { <<32, 65, 77>>, <<32, 112, 109>> }          \* " AM", " pm"
BadAmPm == { <<65, 77>> }                                 \* "AM" without the space

DateText(m, d, y, h, ap) ==
    m \o ChSlash \o d \o ChSlash \o y \o ChSpace \o h \o FieldTail \o ap

WellFormedDates ==
    { DateText(m, d, y, h, ap) :
        m \in GoodMonths, d \in GoodDays, y \in GoodYears,
        h \in GoodHours, ap \in GoodAmPm }

MalformedDates ==
    { DateText(t[1], t[2], t[3], t[4], t[5]) :
        t \in { u \in (GoodMonths \cup BadMonths) \X (GoodDays \cup BadDays)
                      \X (GoodYears \cup BadYears) \X (GoodHours \cup BadHours)
                      \X (GoodAmPm \cup BadAmPm) :
                  \/ u[1] \in BadMonths \/ u[2] \in BadDays \/ u[3] \in BadYears
                  \/ u[4] \in BadHours \/ u[5] \in BadAmPm } }

DateInputs ==
    {None, Some(<<>>), Some(StrGarbage)}
        \cup { Some(t) : t \in WellFormedDates \cup MalformedDates }

InitDate ==
    /\ pc = "call"
    /\ arg \in DateInputs
    /\ ret = Returned(<<>>)
    /\ ret2 = Returned(<<>>)
    /\ V1Idle
    /\ MainIdle
    /\ V2Idle

CallParseDate ==
    /\ pc = "call"
    /\ ret' = parse_date_to_jalali(arg)
    /\ pc' = "returned"
    /\ UNCHANGED <<arg, ret2, pages, all_posts, mainVars, v2Vars>>

NextDate == CallParseDate

SpecDate == InitDate /\ [][NextDate]_vars

\* C9: parse_date_to_jalali never raises, and for every input that does not
\* match the pattern M/D/YYYY h:mm:ss AM/PM (None, the empty string,
\* "garbage", a timestamp with a field that does not fit, any text strptime
\* rejects) it returns "jalali:" followed by the input.
C9_FallbackNeverRaises ==
    pc = "returned" =>
        /\ ~ret.raised
        /\ ( \/ arg \in {None, Some(<<>>), Some(StrGarbage)}
             \/ Get(arg) \in MalformedDates
             \/ ~Strptime(Get(arg)).ok )
           => ret.value = <<106, 97, 108, 97, 108, 105, 58>>
                            \o (IF arg = None THEN <<78, 111, 110, 101>> ELSE Get(arg))

\* C9 witness: "garbage" came back as "jalali:garbage", without an exception
C9_Witness ==
    /\ pc = "returned"
    /\ arg = Some(StrGarbage)
    /\ ~ret.raised
    /\ ret.value = StrJalali \o StrGarbage

\* the result the rule gives for the timestamp of month m, day d, year y,
\* hour h, minute 02 and AM/PM text ap
ExpectedJalali(m, d, y, h, ap) ==
    LET before == IntVal(m) < 3 \/ (IntVal(m) = 3 /\ IntVal(d) < 21)
        pm == ap[2] \in {80, 112}
        hour == IF IntVal(h) = 12 THEN (IF pm THEN 12 ELSE 0)
                ELSE (IF pm THEN IntVal(h) + 12 ELSE IntVal(h))
    IN  <<106, 97, 108, 97, 108, 105, 58>>
          \o ZeroPad(IF before THEN IntVal(y) - 621 ELSE IntVal(y) - 620, 4) \o <<47>>
          \o ZeroPad(IntVal(m), 2) \o <<47>> \o ZeroPad(IntVal(d), 2) \o <<47>>
          \o ZeroPad(hour, 2) \o <<58, 48, 50>>

-----------------------------------------------------------------------------
(* v1: the org-mode formatter.  A line is a string; the output is the      *)
(* sequence of the lines written.                                          *)

\* the string literals of the formatter and of the URL handling
Lit ==
    [ TitleKey |-> <<35, 43, 84, 73, 84, 76, 69, 58, 32>>,    \* "#+TITLE: "
      DefaultTitle |-> <<78, 105, 110, 105, 115, 105, 116, 101, 32, 80, 111, 115, 116>>,    \* "Ninisite Post"
      Star |-> <<42, 32>>,    \* "* "
      Properties |-> <<58, 80, 82, 79, 80, 69, 82, 84, 73, 69, 83, 58>>,    \* ":PROPERTIES:"
      TopicIdKey |-> <<58, 84, 79, 80, 73, 67, 95, 73, 68, 58, 32>>,    \* ":TOPIC_ID: "
      OriginalUrlKey |-> <<58, 79, 82, 73, 71, 73, 78, 65, 76, 95, 85, 82, 76, 58, 32>>,    \* ":ORIGINAL_URL: "
      ScrapeDateKey |-> <<58, 83, 67, 82, 65, 80, 69, 95, 68, 65, 84, 69, 58, 32>>,    \* ":SCRAPE_DATE: "
      TotalPagesKey |-> <<58, 84, 79, 84, 65, 76, 95, 80, 65, 71, 69, 83, 58, 32>>,    \* ":TOTAL_PAGES: "
      UniqueAuthorsKey |-> <<58, 85, 78, 73, 81, 85, 69, 95, 65, 85, 84, 72, 79, 82, 83, 58, 32>>,    \* ":UNIQUE_AUTHORS: "
      AuthorKey |-> <<58, 65, 85, 84, 72, 79, 82, 58, 32>>,    \* ":AUTHOR: "
      TotalPostsKey |-> <<58, 84, 79, 84, 65, 76, 95, 80, 79, 83, 84, 83, 58, 32>>,    \* ":TOTAL_POSTS: "
      End |-> <<58, 69, 78, 68, 58>>,    \* ":END:"
      Unknown |-> <<85, 110, 107, 110, 111, 119, 110>>,    \* "Unknown"
      CustomIdKey |-> <<58, 67, 85, 83, 84, 79, 77, 95, 73, 68, 58, 32>>,    \* ":CUSTOM_ID: "
      PageKey |-> <<58, 80, 65, 71, 69, 58, 32>>,    \* ":PAGE: "
      PageOpen |-> <<42, 42, 32, 91, 91>>,    \* "** [["
      Page1st |-> <<93, 91, 49, 115, 116, 32, 80, 97, 103, 101, 93, 93>>,    \* "][1st Page]]"
      Page2nd |-> <<93, 91, 50, 110, 100, 32, 80, 97, 103, 101, 93, 93>>,    \* "][2nd Page]]"
      Page3rd |-> <<93, 91, 51, 114, 100, 32, 80, 97, 103, 101, 93, 93>>,    \* "][3rd Page]]"
      PageNthA |-> <<93, 91>>,    \* "]["
      PageNthB |-> <<116, 104, 32, 80, 97, 103, 101, 93, 93>>,    \* "th Page]]"
      Level2 |-> <<42, 42>>,    \* "**"
      Level3 |-> <<42, 42, 42>>,    \* "***"
      UnknownId |-> <<117, 110, 107, 110, 111, 119, 110>>,    \* "unknown"
      AutoPrefix |-> <<110, 105, 110, 105, 115, 105, 116, 101, 95, 116, 111, 112, 105, 99, 95>>,    \* "ninisite_topic_"
      AutoSuffix |-> <<46, 111, 114, 103>>,    \* ".org"
      PageEq |-> <<112, 97, 103, 101, 61>>,    \* "page="
      AmpPage |-> <<38, 112, 97, 103, 101, 61>>,    \* "&page="
      QPage |-> <<63, 112, 97, 103, 101, 61>>,    \* "?page="
      SchemeSep |-> <<58, 47, 47>>,    \* "://"
      BracketOpen |-> <<32, 91>>,    \* " ["
      BracketClose |-> <<93>>,    \* "]"
      Dash |-> <<45>>,    \* "-"
      LikesTag |-> <<64, 108, 105, 107, 101, 115, 47>>,    \* "@likes/"
      DateKey |-> <<58, 68, 65, 84, 69, 58, 32>>,    \* ":DATE: "
      LikesKey |-> <<58, 76, 73, 75, 69, 83, 58, 32>> ]    \* ":LIKES: "

StrBaseUrl == <<104, 116, 116, 112, 115, 58, 47, 47, 119, 119, 119, 46, 110, 105, 110, 105, 115, 105, 116, 101, 46, 99, 111, 109, 47, 100, 105, 115, 99, 117, 115, 115, 105, 111, 110, 47, 116, 111, 112, 105, 99, 47, 49, 50, 51, 47, 116>>    \* "https://www.ninisite.com/discussion/topic/123/t"
StrOutFile == <<111, 117, 116, 46, 111, 114, 103>>    \* "out.org"
StrTitle == <<84>>    \* "T"
StrNow == <<48, 55, 47, 48, 52, 47, 50, 48, 50, 51, 32, 48, 56, 58, 48, 50, 58, 52, 56, 32, 65, 77>>    \* "07/04/2023 08:02:48 AM"

\* the position of the first occurrence of t in s from position i on, 0 if none
FindFrom(s, t, i) ==
    LET hits == { j \in i..(Len(s) - Len(t) + 1) : OccursAt(s, t, j) }
    IN  IF hits = {} THEN 0 ELSE CHOOSE j \in hits : \A k \in hits : j <= k

\* s.replace(t, r), t not empty
RECURSIVE Replace(_, _, _)
Replace(s, t, r) ==
    LET i == FindFrom(s, t, 1)
    IN  IF i = 0 THEN s
        ELSE SubSeq(s, 1, i - 1) \o r \o Replace(SubSeq(s, i + Len(t), Len(s)), t, r)

\* s.split(sep) for a one-character separator
RECURSIVE Split(_, _)
Split(s, sep) ==
    LET i == FindFrom(s, <<sep>>, 1)
    IN  IF i = 0 THEN <<s>>
        ELSE <<SubSeq(s, 1, i - 1)>> \o Split(SubSeq(s, i + 1, Len(s)), sep)

\* urlparse(url).path of a URL scheme://netloc/path?query#fragment
UrlPath(url) ==
    LET a == FindFrom(url, Lit.SchemeSep, 1)
        rest == IF a = 0 THEN url ELSE SubSeq(url, a + 3, Len(url))
        b == FindFrom(rest, ChSlash, 1)
        p == IF a = 0 THEN rest
             ELSE IF b = 0 THEN <<>> ELSE SubSeq(rest, b, Len(rest))
        cuts == { i \in 1..Len(p) : p[i] \in {63, 35} }
    IN  IF cuts = {} THEN p
        ELSE SubSeq(p, 1, (CHOOSE i \in cuts : \A j \in cuts : i <= j) - 1)

\* str.isdigit() on the characters of the model
IsDigitStr(t) == t # <<>> /\ \A i \in 1..Len(t) : IsDigit(t[i])

\* extract_topic_id(url)
extract_topic_id(url) ==
    LET parts == Split(UrlPath(url), 47)
        hits == { i \in 1..Len(parts) : IsDigitStr(parts[i]) }
    IN  IF hits = {} THEN Lit.UnknownId
        ELSE parts[CHOOSE i \in hits : \A j \in hits : i <= j]

\* re.sub(r'page=\d+', 'page=N', url)
RECURSIVE SubPageParam(_, _)
SubPageParam(url, n) ==
    LET hits == { i \in 1..Len(url) :
                    /\ OccursAt(url, Lit.PageEq, i)
                    /\ i + 5 <= Len(url)
                    /\ IsDigit(url[i + 5]) }
    IN  IF hits = {} THEN url
        ELSE LET i == CHOOSE k \in hits : \A j \in hits : k <= j
                 e == DigitsEnd(url, i + 5)
             IN  SubSeq(url, 1, i - 1) \o Lit.PageEq \o IntToStr(n)
                    \o SubPageParam(SubSeq(url, e, Len(url)), n)

\* lines 444-457: the URL of a page
PageUrl(base_url, page_num) ==
    IF page_num = 1 THEN base_url
    ELSE IF Contains(base_url, <<63>>)
         THEN IF Contains(base_url, Lit.PageEq)
              THEN SubPageParam(base_url, page_num)
              ELSE base_url \o Lit.AmpPage \o IntToStr(page_num)
         ELSE base_url \o Lit.QPage \o IntToStr(page_num)

\* lines 460-467: the heading of a page
PageHeading(base_url, page_num) ==
    Lit.PageOpen \o PageUrl(base_url, page_num) \o
        ( IF page_num = 1 THEN Lit.Page1st
          ELSE IF page_num = 2 THEN Lit.Page2nd
          ELSE IF page_num = 3 THEN Lit.Page3rd
          ELSE Lit.PageNthA \o IntToStr(page_num) \o Lit.PageNthB )

\* the stripped, non-empty lines of a text (lines 625-628)
RECURSIVE NonBlankStripped(_)
NonBlankStripped(ls) ==
    IF ls = <<>> THEN <<>>
    ELSE (IF Strip(Head(ls)) # <<>> THEN <<Strip(Head(ls))>> ELSE <<>>)
         \o NonBlankStripped(Tail(ls))

\* post.get('author', 'Unknown')
AuthorOrUnknown(post) == IF IsSome(post.author) THEN Get(post.author) ELSE Lit.Unknown

\* does int(t) return (TRUE) or raise ValueError (FALSE): surrounding
\* whitespace, an optional sign, then decimal digits, single underscores
\* allowed between digits
IsPyInt(t) ==
    LET u == Strip(t)
        body == IF u # <<>> /\ u[1] \in {43, 45} THEN Tail(u) ELSE u
    IN  /\ body # <<>>
        /\ \A i \in 1..Len(body) :
               \/ IsDigit(body[i])
               \/ /\ body[i] = 95
                  /\ i > 1 /\ i < Len(body)
                  /\ IsDigit(body[i - 1]) /\ IsDigit(body[i + 1])

\* int(t) > 0, for t with IsPyInt(t)
PyIntPositive(t) ==
    LET u == Strip(t)
    IN  /\ u[1] # 45
        /\ \E i \in 1..Len(u) : IsDigit(u[i]) /\ DigitVal(u[i]) # 0

\* post.get('likes', '0')
LikesOrZero(post) == IF IsSome(post.likes) THEN Get(post.likes) ELSE ChZero

\* lines 577-579 (657-659): likes and likes != '0' and int(likes) > 0 raises
\* ValueError when the text is not an integer literal; nothing of the post
\* is written before
FormatPostRaises(post) ==
    LET likes == LikesOrZero(post)
    IN  likes # <<>> /\ likes # ChZero /\ ~IsPyInt(likes)

\* post.get('date', ''): the argument of parse_date_to_jalali
DateOrEmpty(post) == IF IsSome(post.date) THEN Get(post.date) ELSE Some(<<>>)

\* _format_post_streaming / _format_post: the lines of one post that does
\* not make int() raise.  The articles of the model carry no reg-date,
\* post-count, quotation or signature element, so the post has none of these
\* keys and author_info is ''.
FormatPost(post, heading_level) ==
    LET likes == LikesOrZero(post)
        likes_str == IF likes # <<>> /\ likes # ChZero /\ PyIntPositive(likes)
                     THEN Lit.LikesTag \o likes \o ChSpace
                     ELSE <<>>
        author_formatted == format_author_name(AuthorOrUnknown(post))
        date_formatted == parse_date_to_jalali(DateOrEmpty(post)).value
        heading == heading_level \o ChSpace \o likes_str \o author_formatted \o ChSpace
                     \o Lit.BracketOpen \o date_formatted \o Lit.BracketClose
        id == Get(post.id)
        custom_id == IF Prefix(id, 5) = StrPostDash THEN Replace(id, StrPostDash, <<>>)
                     ELSE id
    IN  <<heading, Lit.Properties>>
        \o (IF Truthy(post.id) THEN <<Lit.CustomIdKey \o custom_id>> ELSE <<>>)
        \o (IF Truthy(post.author) THEN <<Lit.AuthorKey \o Get(post.author)>> ELSE <<>>)
        \o (IF IsSome(post.date) /\ Truthy(Get(post.date))
            THEN <<Lit.DateKey \o Get(Get(post.date))>> ELSE <<>>)
        \o (IF Truthy(post.likes) THEN <<Lit.LikesKey \o Get(post.likes)>> ELSE <<>>)
        \o (IF post.page # 0 THEN <<Lit.PageKey \o IntToStr(post.page)>> ELSE <<>>)
        \o <<Lit.End>>
        \o (IF Truthy(post.content)
            THEN NonBlankStripped(Split(Get(post.content), 10)) \o << <<>> >>
            ELSE <<>>)

\* lines 398-399: the lines written before set_auto_filename
FormatTitle(md) ==
    << Lit.TitleKey \o (IF IsSome(md.title) THEN Get(md.title) ELSE Lit.DefaultTitle),
       <<>> >>

\* max(post.get('page', 1) for post in posts) if posts else 1
RECURSIVE MaxPage(_)
MaxPage(ps) ==
    IF ps = <<>> THEN 1
    ELSE IF Len(ps) = 1 THEN ps[1].page
    ELSE Max(ps[1].page, MaxPage(Tail(ps)))

\* The mutant of UniqueAuthors: every post counts, not every distinct author
UniqueAuthorsPerPost(ps) == Len(ps)

\* len(set(post.get('author', 'Unknown') for post in posts))
UniqueAuthors(ps) == Cardinality({ AuthorOrUnknown(ps[i]) : i \in 1..Len(ps) })

\* lines 411-428: the main header.  The pages of the model have no
\* datepublished, userInteractionCount or breadcrumb element.
FormatHeader(md, ps, base_url) ==
    << Lit.Star \o (IF IsSome(md.title) THEN Get(md.title) ELSE Lit.DefaultTitle),
       Lit.Properties,
       Lit.TopicIdKey \o extract_topic_id(base_url),
       Lit.OriginalUrlKey \o base_url,
       Lit.ScrapeDateKey \o parse_date_to_jalali(Some(StrNow)).value,
       Lit.TotalPagesKey \o IntToStr(MaxPage(ps)),
       Lit.UniqueAuthorsKey \o IntToStr(UniqueAuthors(ps)) >>
    \o (IF Truthy(md.author) THEN <<Lit.AuthorKey \o Get(md.author)>> ELSE <<>>)
    \o << Lit.TotalPostsKey \o IntToStr(Len(ps)), Lit.End, <<>> >>

\* the lines of the posts of ps with index >= i that are on page page_num
RECURSIVE FormatPagePosts(_, _, _)
FormatPagePosts(ps, page_num, i) ==
    IF i > Len(ps) THEN <<>>
    ELSE (IF ps[i].page = page_num THEN FormatPost(ps[i], Lit.Level3) ELSE <<>>)
         \o FormatPagePosts(ps, page_num, i + 1)

\* lines 440-471: page by page in ascending order of page number, from
\* page number n on
RECURSIVE FormatPages(_, _, _)
FormatPages(ps, base_url, n) ==
    IF n > MaxPage(ps) THEN <<>>
    ELSE (IF \E i \in 1..Len(ps) : ps[i].page = n
          THEN <<PageHeading(base_url, n)>> \o FormatPagePosts(ps, n, 1)
          ELSE <<>>)
         \o FormatPages(ps, base_url, n + 1)

RECURSIVE FormatFlat(_)
FormatFlat(ps) ==
    IF ps = <<>> THEN <<>> ELSE FormatPost(Head(ps), Lit.Level2) \o FormatFlat(Tail(ps))

\* lines 430-475: the posts
FormatBody(ps, base_url, pag) ==
    IF pag THEN FormatPages(ps, base_url, 1) ELSE FormatFlat(ps)

\* the posts in the order the formatter reaches them: page by page when
\* paginated (posts_by_page keeps list order within a page), list order
\* otherwise
RECURSIVE PostsByPage(_, _)
PostsByPage(ps, n) ==
    IF n > MaxPage(ps) THEN <<>>
    ELSE LET OnPage(post) == post.page = n
         IN  SelectSeq(ps, OnPage) \o PostsByPage(ps, n + 1)

FormatOrder(ps, pag) == IF pag THEN PostsByPage(ps, 1) ELSE ps

\* does formatting the posts raise (ValueError from int(likes))
FormatRaises(ps) == \E i \in 1..Len(ps) : FormatPostRaises(ps[i])

\* the lines of the posts written before the exception, when one is raised:
\* the posts before the first one that raises and, when paginated, the
\* heading of its page
FormatBodyPartial(ps, base_url, pag) ==
    LET order == FormatOrder(ps, pag)
        k == CHOOSE i \in 1..Len(order) :
                 /\ FormatPostRaises(order[i])
                 /\ \A j \in 1..(i - 1) : ~FormatPostRaises(order[j])
        before == SubSeq(order, 1, k - 1)
    IN  FormatBody(before, base_url, pag)
        \o (IF pag /\ \A j \in 1..Len(before) : before[j].page # order[k].page
            THEN <<PageHeading(base_url, order[k].page)>>
            ELSE <<>>)

\* The mutant of format_post: no empty line after the content
format_post_no_blank(post, heading_level) ==
    LET ls == FormatPost(post, heading_level)
    IN  IF Truthy(post.content) THEN SubSeq(ls, 1, Len(ls) - 1) ELSE ls

\* lines 656-659: the likes part of the heading
OrgLikesStr(likes) ==
    IF likes # <<>> /\ likes # ChZero /\ PyIntPositive(likes)
    THEN Lit.LikesTag \o likes \o ChSpace
    ELSE <<>>

\* lines 668-670: the CUSTOM_ID of a post id
OrgCustomId(id) ==
    IF Prefix(id, 5) = StrPostDash THEN Replace(id, StrPostDash, <<>>) ELSE id

\* lines 666-685: the property lines between ":PROPERTIES:" and ":END:"
OrgPropertyLines(post) ==
    (IF Truthy(post.id) THEN << Lit.CustomIdKey \o OrgCustomId(Get(post.id)) >> ELSE <<>>)
    \o (IF Truthy(post.author) THEN << Lit.AuthorKey \o Get(post.author) >> ELSE <<>>)
    \o (IF IsSome(post.date) /\ Truthy(Get(post.date))
        THEN << Lit.DateKey \o Get(Get(post.date)) >> ELSE <<>>)
    \o (IF Truthy(post.likes) THEN << Lit.LikesKey \o Get(post.likes) >> ELSE <<>>)
    \o (IF post.page # 0 THEN << Lit.PageKey \o IntToStr(post.page) >> ELSE <<>>)

\* lines 705-708: the stripped lines of a text that are not blank
OrgKeptLines(lines) ==
    LET IsLine(line) == Strip(line) # <<>>
    IN  [ k \in 1..Len(SelectSeq(lines, IsLine)) |-> Strip(SelectSeq(lines, IsLine)[k]) ]

\* lines 641-719, _format_post(post, org_content, heading_level): the lines
\* appended to org_content for a post that does not make int() raise.  The
\* posts of the model have no join date, post count, reply, quotation or
\* signature key.
format_post(post, heading_level) ==
    << heading_level \o ChSpace \o OrgLikesStr(LikesOrZero(post))
         \o format_author_name(AuthorOrUnknown(post)) \o ChSpace \o Lit.BracketOpen
         \o parse_date_to_jalali(DateOrEmpty(post)).value \o Lit.BracketClose,
       Lit.Properties >>
    \o OrgPropertyLines(post)
    \o <<Lit.End>>
    \o (IF Truthy(post.content)
        THEN OrgKeptLines(Split(Get(post.content), 10)) \o << <<>> >>
        ELSE <<>>)

\* format_org_mode while it runs: the list org_content, and whether an
\* exception has left the function
OrgAppendPost(acc, post, heading_level) ==
    IF acc.raised THEN acc
    ELSE IF FormatPostRaises(post) THEN [acc EXCEPT !.raised = TRUE]
    ELSE [acc EXCEPT !.org_content = @ \o format_post(post, heading_level)]

\* for post in posts: self._format_post(post, org_content, heading_level)
RECURSIVE OrgAppendPosts(_, _, _)
OrgAppendPosts(acc, ps, heading_level) ==
    IF ps = <<>> THEN acc
    ELSE OrgAppendPosts(OrgAppendPost(acc, Head(ps), heading_level), Tail(ps),
                        heading_level)

\* sorted(posts_by_page.keys())
RECURSIVE SortedKeys(_)
SortedKeys(S) ==
    IF S = {} THEN <<>>
    ELSE <<CHOOSE n \in S : \A m \in S : n <= m>>
         \o SortedKeys(S \ {CHOOSE n \in S : \A m \in S : n <= m})

\* lines 542-550: the heading of a page
OrgPageHeading(base_url, page_num) ==
    Lit.PageOpen \o PageUrl(base_url, page_num)
        \o (IF page_num = 1 THEN Lit.Page1st
            ELSE IF page_num = 2 THEN Lit.Page2nd
            ELSE IF page_num = 3 THEN Lit.Page3rd
            ELSE Lit.PageNthA \o IntToStr(page_num) \o Lit.PageNthB)

\* lines 514-519: posts_by_page[page_num]
OrgPagePosts(ps, page_num) ==
    LET OnPage(post) == post.page = page_num
    IN  SelectSeq(ps, OnPage)

\* lines 523-553: for page_num in sorted(posts_by_page.keys()), the heading
\* of the page and its posts
RECURSIVE OrgAppendPages(_, _, _, _)
OrgAppendPages(acc, ps, base_url, keys) ==
    IF keys = <<>> \/ acc.raised THEN acc
    ELSE OrgAppendPages(
             OrgAppendPosts(
                 [acc EXCEPT !.org_content = Append(@, OrgPageHeading(base_url, Head(keys)))],
                 OrgPagePosts(ps, Head(keys)), Lit.Level3),
             ps, base_url, Tail(keys))

\* lines 479-510: org_content before the posts, for the title `title`
OrgStart(md, ps, base_url, title) ==
    [ raised |-> FALSE,
      org_content |->
          << Lit.TitleKey \o title,
             <<>>,
             Lit.Star \o title,
             Lit.Properties,
             Lit.TopicIdKey \o extract_topic_id(base_url),
             Lit.OriginalUrlKey \o base_url,
             Lit.ScrapeDateKey \o parse_date_to_jalali(Some(StrNow)).value,
             Lit.TotalPagesKey \o IntToStr(MaxPage(ps)),
             Lit.UniqueAuthorsKey \o IntToStr(UniqueAuthors(ps)) >>
          \o (IF Truthy(md.author) THEN <<Lit.AuthorKey \o Get(md.author)>> ELSE <<>>)
          \o << Lit.TotalPostsKey \o IntToStr(Len(ps)), Lit.End, <<>> >> ]

\* line 480: metadata.get('title', 'Ninisite Post')
OrgTitle(md) == IF IsSome(md.title) THEN Get(md.title) ELSE Lit.DefaultTitle

\* lines 477-559, format_org_mode up to the join: org_content and whether
\* the function was left by an exception
format_org_mode_run(md, ps, base_url, pag) ==
    IF pag
    THEN OrgAppendPages(OrgStart(md, ps, base_url, OrgTitle(md)), ps, base_url,
                        SortedKeys({ ps[i].page : i \in 1..Len(ps) }))
    ELSE OrgAppendPosts(OrgStart(md, ps, base_url, OrgTitle(md)), ps, Lit.Level2)

\* format_org_mode: the lines joined into the result, for posts that do not
\* make it raise
format_org_mode(md, ps, base_url, pag) ==
    format_org_mode_run(md, ps, base_url, pag).org_content

-----------------------------------------------------------------------------
(* v1: OrgWriter                                                           *)

\* OrgWriter.__init__ / _setup_output
OrgWriterNew(output_file) ==
    [ output_file |-> output_file,
      file_handle |-> IF output_file = Some(Lit.Dash) THEN "stdout"
                      ELSE IF Truthy(output_file) THEN "file"
                      ELSE "none" ]

\* OrgWriter.set_auto_filename
SetAutoFilename(w, topic_id) ==
    IF w.file_handle = "none"
    THEN [ output_file |-> Some(Lit.AutoPrefix \o topic_id \o Lit.AutoSuffix),
           file_handle |-> "file" ]
    ELSE w

\* OrgWriter.writeln of each line of ls: what reaches the destination
WriteLines(w, ls) == IF w.file_handle # "none" THEN ls ELSE <<>>

\* extract_topic_metadata(soup): title and author of the topic article
extract_topic_metadata(page) ==
    [ title |-> IF IsSome(page.title) THEN Some(Strip(Get(page.title))) ELSE None,
      author |-> LET t == FindTopic(page.articles)
                 IN  IF IsSome(t) /\ IsSome(Get(t).author)
                     THEN Some(Strip(Get(Get(t).author)))
                     ELSE None ]

-----------------------------------------------------------------------------
(* Specification SpecScrape: main() runs scrape_discussion_streaming (with *)
(* an OrgWriter) or scrape_discussion on a URL.                            *)

MaxScrapePages == 2    \* pages get_all_pages returns

StrUrlWithQuery == StrBaseUrl \o <<63, 120, 61, 49>>    \* the URL with "?x=1"

ScrapeUrls == { StrBaseUrl, StrUrlWithQuery }

\* the values of --out: not given, '-', a file name
OutArgs == { None, Some(Lit.Dash), Some(StrOutFile) }

\* the pages the page source of this specification can deliver
ScrapePages ==
    { Page(Some(ChSpace \o StrTitle), <<ArtTopicText, ArtReplyText>>),
      Page(None, <<ArtReplyText, ArtReplyAd, ArtReplyBlank>>),
      Page(None, <<ArtReplyLiked, ArtReplyUnknown, ArtReplyNoAuthor>>),
      Page(None, <<ArtReplyHello, ArtReplyBadLikes, ArtReplyText>>),
      Page(None, <<>>) }

InitScrape ==
    /\ pc = "get_all_pages"
    /\ arg \in ScrapeUrls
    /\ streaming \in BOOLEAN
    /\ paginate \in BOOLEAN
    /\ args_out \in OutArgs
    /\ writer = IF streaming THEN OrgWriterNew(args_out) ELSE NoWriter
    /\ pages = <<>>
    /\ all_posts = <<>>
    /\ err = ""
    /\ steps = <<>>
    /\ metadata = NoMetadata
    /\ org_content = None
    /\ output = <<>>
    /\ ret = Returned(<<>>)
    /\ ret2 = Returned(<<>>)
    /\ V2Idle

\* get_all_pages: one more page is fetched and appended
ScrapeFetchPage ==
    /\ pc = "get_all_pages"
    /\ Len(pages) < MaxScrapePages
    /\ \E page \in ScrapePages : pages' = Append(pages, page)
    /\ UNCHANGED <<pc, all_posts, mainVars, fnVars, v2Vars>>

\* The mutant of NoPages: the test for an empty page list is missing
NoPagesNever(pgs) == FALSE

\* lines 727 and 748: if not pages
NoPages(pgs) == pgs = <<>>

\* lines 726-728 / 747-749: get_all_pages returns; no pages is an error
ScrapeGetAllPagesReturn ==
    /\ pc = "get_all_pages"
    /\ steps' = Append(steps, "get_all_pages")
    /\ IF NoPages(pages)
       THEN /\ err' = "Could not fetch any pages"
            /\ pc' = "failed"
       ELSE /\ err' = err
            /\ pc' = "metadata"
    /\ UNCHANGED <<pages, all_posts, writer, streaming, paginate, args_out,
                   metadata, org_content, output, fnVars, v2Vars>>

\* lines 733 / 754: extract_topic_metadata(pages[0]); pages[0] of an empty
\* list raises IndexError before the call
ScrapeMetadata ==
    /\ pc = "metadata"
    /\ IF pages = <<>>
       THEN /\ err' = "IndexError"
            /\ pc' = "failed"
            /\ UNCHANGED <<steps, metadata>>
       ELSE /\ metadata' = extract_topic_metadata(pages[1])
            /\ steps' = Append(steps, "extract_topic_metadata")
            /\ pc' = "extract_posts"
            /\ err' = err
    /\ UNCHANGED <<pages, all_posts, writer, streaming, paginate, args_out,
                   org_content, output, fnVars, v2Vars>>

\* lines 736 / 757: extract_posts(pages)
ScrapeExtractPosts ==
    /\ pc = "extract_posts"
    /\ all_posts' = extract_posts(pages)
    /\ steps' = Append(steps, "extract_posts")
    /\ pc' = "format"
    /\ UNCHANGED <<pages, err, writer, streaming, paginate, args_out, metadata,
                   org_content, output, fnVars, v2Vars>>

\* line 740: format_org_mode_streaming writes through the writer, which
\* set_auto_filename opens after the title lines if it is not open yet
ScrapeFormatStreaming ==
    /\ pc = "format"
    /\ streaming
    /\ writer' = SetAutoFilename(writer, extract_topic_id(arg))
    /\ steps' = Append(steps, "format_org_mode_streaming")
    /\ output' = WriteLines(writer, FormatTitle(metadata))
                   \o WriteLines(writer', FormatHeader(metadata, all_posts, arg))
                   \o WriteLines(writer', IF FormatRaises(all_posts)
                                          THEN FormatBodyPartial(all_posts, arg, paginate)
                                          ELSE FormatBody(all_posts, arg, paginate))
    /\ err' = (IF FormatRaises(all_posts) THEN "ValueError" ELSE err)
    /\ pc' = (IF FormatRaises(all_posts) THEN "failed" ELSE "done")
    /\ UNCHANGED <<pages, all_posts, streaming, paginate, args_out, metadata,
                   org_content, fnVars, v2Vars>>

\* line 761: format_org_mode returns the text
ScrapeFormat ==
    /\ pc = "format"
    /\ ~streaming
    /\ steps' = Append(steps, "format_org_mode")
    /\ org_content' = (IF FormatRaises(all_posts) THEN org_content
                       ELSE Some(format_org_mode(metadata, all_posts, arg, paginate)))
    /\ err' = (IF FormatRaises(all_posts) THEN "ValueError" ELSE err)
    /\ pc' = (IF FormatRaises(all_posts) THEN "failed" ELSE "returned")
    /\ UNCHANGED <<pages, all_posts, writer, streaming, paginate, args_out,
                   metadata, output, fnVars, v2Vars>>

\* main(), lines 795-807: the returned text is printed or written to a file
MainWriteOutput ==
    /\ pc = "returned"
    /\ output' = Get(org_content)
    /\ pc' = "done"
    /\ UNCHANGED <<pages, all_posts, err, steps, writer, streaming, paginate,
                   args_out, metadata, org_content, fnVars, v2Vars>>

NextScrape ==
    \/ ScrapeFetchPage
    \/ ScrapeGetAllPagesReturn
    \/ ScrapeMetadata
    \/ ScrapeExtractPosts
    \/ ScrapeFormatStreaming
    \/ ScrapeFormat
    \/ MainWriteOutput

SpecScrape == InitScrape /\ [][NextScrape]_vars

\* C2: when get_all_pages returns no page, scrape_discussion and
\* scrape_discussion_streaming end with the error "Could not fetch any
\* pages"; the only call made is get_all_pages: no metadata and no post is
\* extracted, nothing is formatted and no line reaches the output.
C2_NoPagesFailsBeforeOutput ==
    (pc # "get_all_pages" /\ pages = <<>>) =>
        /\ pc = "failed"
        /\ err = "Could not fetch any pages"
        /\ steps = <<"get_all_pages">>
        /\ metadata = NoMetadata
        /\ all_posts = <<>>
        /\ org_content = None
        /\ output = <<>>

\* C2 witness: the streaming run with an open output file has failed on an
\* empty page list
C2_Witness ==
    /\ pc = "failed"
    /\ pages = <<>>
    /\ streaming
    /\ writer.file_handle = "file"
    /\ output = <<>>


\* the set of the elements of a sequence
Range(q) == { q[i] : i \in 1..Len(q) }

\* the lines of the output that start with key
OutputLines(key) ==
    { output[i] : i \in { k \in 1..Len(output) : Prefix(output[k], Len(key)) = key } }

\* C13: the derived fields the formatter emits: TOTAL_PAGES is the maximum
\* page number over the posts (1 for an empty post list), UNIQUE_AUTHORS is
\* the number of distinct author values over the posts (a post without
\* author has the value 'Unknown'), TOTAL_POSTS is the length of the list.
C13_DerivedFields ==
    (pc = "done" \/ (pc = "failed" /\ "format_org_mode_streaming" \in Range(steps))) =>
        LET pagenums == { all_posts[i].page : i \in 1..Len(all_posts) }
            maxpage == IF pagenums = {} THEN 1
                       ELSE CHOOSE m \in pagenums : \A n \in pagenums : n <= m
            authors == { IF all_posts[i].author = None THEN Lit.Unknown
                         ELSE Get(all_posts[i].author) : i \in 1..Len(all_posts) }
        IN  /\ OutputLines(Lit.TotalPagesKey) = { Lit.TotalPagesKey \o IntToStr(maxpage) }
            /\ OutputLines(Lit.UniqueAuthorsKey)
                 = { Lit.UniqueAuthorsKey \o IntToStr(Cardinality(authors)) }
            /\ OutputLines(Lit.TotalPostsKey)
                 = { Lit.TotalPostsKey \o IntToStr(Len(all_posts)) }

\* C13 witness: five posts on two pages by Ali, Bob, Bob, 'Unknown' and a
\* post without author: 2 pages, 3 authors, 5 posts
C13_Witness ==
    /\ pc = "done"
    /\ Len(pages) = 2
    /\ pages[1].articles = <<ArtTopicText, ArtReplyText>>
    /\ pages[2].articles = <<ArtReplyLiked, ArtReplyUnknown, ArtReplyNoAuthor>>
    /\ Len(all_posts) = 5
    /\ Lit.TotalPagesKey \o <<50>> \in Range(output)
    /\ Lit.UniqueAuthorsKey \o <<51>> \in Range(output)
    /\ Lit.TotalPostsKey \o <<53>> \in Range(output)

\* C21: in streaming mode every line format_org_mode_streaming passes to the
\* writer reaches the output, in the order written, whether the writer
\* was made for a file, for '-' or without an output file; the first line
\* of the output is the "#+TITLE: " line.
C21_EveryLineReachesOutput ==
    (pc = "done" /\ streaming) =>
        /\ output = FormatTitle(metadata) \o FormatHeader(metadata, all_posts, arg)
                       \o FormatBody(all_posts, arg, paginate)
        /\ Prefix(output[1], Len(Lit.TitleKey)) = Lit.TitleKey

-----------------------------------------------------------------------------
(* v2, NiniesiteScraper: heuristic extraction.  clean_content and          *)
(* is_valid_post, character by character                                   *)


MinCleanLength == 30    \* line 163: len(content) < 30
MinValidLength == 30    \* line 176: len(content) < 30

\* line 142: re.sub(r'\s+', ' ', content): the first character of every run
\* of whitespace becomes a space, the rest of the run goes
CollapseWhitespace(s) ==
    LET kept == SelectSeq(Indexed(s),
                    LAMBDA p : ~IsSpace(p[2]) \/ p[1] = 1 \/ ~IsSpace(s[p[1] - 1]))
    IN  [j \in 1..Len(kept) |-> IF IsSpace(kept[j][2]) THEN 32 ELSE kept[j][2]]

\* line 145: re.sub(r'\\+', '', content)
RemoveBackslashes(s) == SelectSeq(s, LAMBDA c : c # 92)

IsSeparator(c) == c \in {124, 58}

\* the first position of the run of whitespace that ends at position i
RECURSIVE SpacesStart(_, _)
SpacesStart(s, i) ==
    IF i >= 1 /\ IsSpace(s[i]) THEN SpacesStart(s, i - 1) ELSE i + 1

\* line 148: re.sub(r'\s*[|:]+\s*', ' ', content).  A match is a maximal run
\* of '|' and ':' with the whitespace before it and the whitespace after it
\* (the whitespace between two runs belongs to the match of the first run);
\* every match becomes one space.
ReplaceSeparators(s) ==
    LET InMatch(i) ==
            /\ IsSpace(s[i])
            /\ \/ SpacesEnd(s, i) <= Len(s) /\ IsSeparator(s[SpacesEnd(s, i)])
               \/ SpacesStart(s, i) > 1 /\ IsSeparator(s[SpacesStart(s, i) - 1])
        kept == SelectSeq(Indexed(s),
                    LAMBDA p : IF IsSeparator(p[2])
                               THEN p[1] = 1 \/ ~IsSeparator(s[p[1] - 1])
                               ELSE ~InMatch(p[1]))
    IN  [j \in 1..Len(kept) |-> IF IsSeparator(kept[j][2]) THEN 32 ELSE kept[j][2]]

\* the position after the run of digits and '/' that starts at position i
RECURSIVE DateCharsEnd(_, _)
DateCharsEnd(s, i) ==
    IF i <= Len(s) /\ (IsDigit(s[i]) \/ s[i] = 47) THEN DateCharsEnd(s, i + 1) ELSE i

\* line 151: (تعداد پست|عضویت|امتیاز)
MetadataLabels ==
    << <<1578, 1593, 1583, 1575, 1583, 32, 1662, 1587, 1578>>,    \* "تعداد پست"
       <<1593, 1590, 1608, 1740, 1578>>,    \* "عضویت"
       <<1575, 1605, 1578, 1740, 1575, 1586>> >>    \* "امتیاز"

\* r'(تعداد پست|عضویت|امتیاز):\s*[\d/]+' matched at position i: the position
\* after the match, 0 if there is none
MatchLabelAt(s, i) ==
    LET ValueAt(k) == SpacesEnd(s, i + Len(MetadataLabels[k]) + 1)
        hits == { k \in 1..Len(MetadataLabels) :
                    /\ OccursAt(s, MetadataLabels[k] \o ChColon, i)
                    /\ DateCharsEnd(s, ValueAt(k)) > ValueAt(k) }
    IN  IF hits = {} THEN 0
        ELSE DateCharsEnd(s, ValueAt(CHOOSE k \in hits : \A j \in hits : k <= j))

\* line 151: re.sub(r'(تعداد پست|عضویت|امتیاز):\s*[\d/]+', '', content)
RECURSIVE RemoveLabels(_)
RemoveLabels(s) ==
    LET hits == { i \in 1..Len(s) : MatchLabelAt(s, i) > 0 }
        first == CHOOSE i \in hits : \A j \in hits : i <= j
    IN  IF hits = {} THEN s
        ELSE SubSeq(s, 1, first - 1)
               \o RemoveLabels(SubSeq(s, MatchLabelAt(s, first), Len(s)))

\* line 154
nav_terms ==
    << <<1578, 1576, 1575, 1583, 1604, 32, 1606, 1592, 1585>>,    \* "تبادل نظر"
       <<1579, 1576, 1578, 32, 1606, 1575, 1605>>,    \* "ثبت نام"
       <<1605, 1580, 1604, 1607>>,    \* "مجله"
       <<1601, 1585, 1608, 1588, 1711, 1575, 1607>>,    \* "فروشگاه"
       <<1576, 1575, 1585, 1583, 1575, 1585, 1740>>,    \* "بارداری"
       <<1605, 1588, 1575, 1608, 1585, 1740, 1606>>,    \* "مشاورین"
       <<1705, 1575, 1606, 1608, 1606>>,    \* "کانون"
       <<1583, 1587, 1578, 1607, 32, 1576, 1606, 1583, 1740>> >>    \* "دسته بندی"

\* lines 155-156: for term in nav_terms: content = content.replace(term, ''),
\* from term number k on
RECURSIVE RemoveNavTerms(_, _)
RemoveNavTerms(s, k) ==
    IF k > Len(nav_terms) THEN s
    ELSE RemoveNavTerms(Replace(s, nav_terms[k], <<>>), k + 1)

\* r'\d{4}/\d{2}/\d{2}' matched at position i
IsDateAt(s, i) ==
    /\ i >= 1
    /\ i + 9 <= Len(s)
    /\ \A k \in {0, 1, 2, 3, 5, 6, 8, 9} : IsDigit(s[i + k])
    /\ s[i + 4] = 47
    /\ s[i + 7] = 47

\* r'^\s*\d{4}/\d{2}/\d{2}\s*$' matches s
IsStandaloneDate(s) ==
    LET i == SpacesEnd(s, 1)
    IN  IsDateAt(s, i) /\ SpacesEnd(s, i + 10) = Len(s) + 1

\* line 159: re.sub(r'^\s*\d{4}/\d{2}/\d{2}\s*$', '', content)
RemoveStandaloneDate(s) == IF IsStandaloneDate(s) THEN <<>> ELSE s

\* lines 142-162: the text before the length test
CleanBody(content) ==
    Strip(RemoveStandaloneDate(RemoveNavTerms(RemoveLabels(ReplaceSeparators(
        RemoveBackslashes(CollapseWhitespace(content)))), 1)))

\* line 163: len(content) < 30
CleanTooShort(n) == n < MinCleanLength

\* clean_content(content)
clean_content(content) ==
    IF content = <<>> THEN <<>>
    ELSE IF CleanTooShort(Len(CleanBody(content))) THEN <<>>
    ELSE CleanBody(content)

\* The mutant of ValidTooShort: a content of exactly 30 characters is rejected
ValidTooShortInclusive(n) == n <= MinValidLength

\* line 176: len(content) < 30
ValidTooShort(n) == n < MinValidLength

\* lines 180-189: re.match of one of the metadata patterns on content.strip()
IsMetadataOnly(t) ==
    \/ MatchLabelAt(t, 1) = Len(t) + 1
    \/ IsDateAt(t, 1) /\ SpacesEnd(t, 11) = Len(t) + 1
    \/ t # <<>> /\ \A i \in 1..Len(t) : t[i] \in {124, 58} \/ IsSpace(t[i])
    \/ t \in { <<1605, 1583, 1740, 1585>>,    \* "مدیر"
               <<1575, 1587, 1578, 1575, 1585, 1578, 1585>> }    \* "استارتر"

\* The mutant of NavRatio: every occurrence of a term is counted
NavRatioOccurrences(content) ==
    Cardinality({ <<k, i>> \in (1..4) \X (1..Len(content)) : OccursAt(content, nav_terms[k], i) })

\* line 192: the number of the four terms that occur in the content
NavRatio(content) ==
    Cardinality({ k \in 1..4 : Contains(content, nav_terms[k]) })

\* line 197: re.search(r"[\u0600-\u06FF]", content)
HasPersian(s) == \E i \in 1..Len(s) : s[i] \in 1536..1791

\* line 198: len(content.split())
WordCount(s) ==
    Cardinality({ i \in 1..Len(s) : ~IsSpace(s[i]) /\ (i = 1 \/ IsSpace(s[i - 1])) })

\* The mutant of is_valid_post: 5 and 200 words are outside the range
is_valid_post_exclusive(post_data) ==
    IF ~IsSome(post_data) \/ Get(post_data).content = <<>> THEN FALSE
    ELSE LET content == Get(post_data).content
         IN  IF ValidTooShort(Len(content)) THEN FALSE
             ELSE IF IsMetadataOnly(Strip(content)) THEN FALSE
             ELSE IF NavRatio(content) > 2 THEN FALSE
             ELSE HasPersian(content) /\ WordCount(content) > 5
                                      /\ WordCount(content) < 200

\* is_valid_post(post_data); post_data is None or Some(post)
is_valid_post(post_data) ==
    IF ~IsSome(post_data) \/ Get(post_data).content = <<>> THEN FALSE
    ELSE LET content == Get(post_data).content
         IN  IF ValidTooShort(Len(content)) THEN FALSE
             ELSE IF IsMetadataOnly(Strip(content)) THEN FALSE
             ELSE IF NavRatio(content) > 2 THEN FALSE
             ELSE HasPersian(content) /\ WordCount(content) >= 5
                                      /\ WordCount(content) <= 200

-----------------------------------------------------------------------------
(* Specification SpecClean: clean_content is called on a text and again on *)
(* its result; is_valid_post is called on a post with the text as content  *)

MaxSegs == 2    \* segments appended to the base text of an input

StrFiller == <<1575, 1740, 1606, 32, 1605, 1578, 1606, 32, 1576, 1585, 1575, 1740, 32, 1570, 1586, 1605, 1575, 1740, 1588, 32, 1576, 1585, 1606, 1575, 1605, 1607, 32, 1606, 1608, 1588, 1578, 1607, 32, 1588, 1583, 1607, 32, 1575, 1587, 1578>>    \* "این متن برای آزمایش برنامه نوشته شده است"

\* the texts an input starts with: 40 and 24 characters of Persian text
BaseTexts == { StrFiller, Prefix(StrFiller, 24) }

\* the segments appended after a base text and a space
CleanSegs ==
    { nav_terms[3] \o ChSpace, <<92>> \o ChSpace, ChColon \o ChSpace,
      WordSalam \o ChSpace, <<1578, 1576, 1575, 1583, 1604, 32>>,
      <<1606, 1592, 1585, 32>> }

RECURSIVE Concat(_)
Concat(ss) == IF ss = <<>> THEN <<>> ELSE Head(ss) \o Concat(Tail(ss))

SegmentTexts ==
    { b \o ChSpace \o Concat(ss) : b \in BaseTexts, ss \in SeqsUpTo(CleanSegs, MaxSegs) }

\* a text of len characters in `words` words made of the character c
WordsText(c, words, len) ==
    Rep(<<c, c, 32>>, words - 1) \o Rep(<<c>>, len - 3 * (words - 1))

\* texts of 29, 30 and 31 characters, Persian or Latin, of 4, 5 or 6 words,
\* bare or between spaces
BoundaryTexts ==
    { pad \o WordsText(c, words, len) \o pad :
        c \in {1587, 97}, words \in 4..6, len \in 29..31, pad \in {<<>>, ChSpace} }

\* the values after a label: "123" and "1400/01/02"
LabelValues == { <<49, 50, 51>>, <<49, 52, 48, 48, 47, 48, 49, 47, 48, 50>> }

\* texts with a label, a colon, optional whitespace and a value in them
LabelTexts ==
    { StrFiller \o ChSpace \o MetadataLabels[k] \o ChColon \o sp \o v \o ChSpace \o WordSalam :
        k \in 1..Len(MetadataLabels), sp \in {<<>>, ChSpace}, v \in LabelValues }

\* the four terms of line 192, a term of line 154 that line 192 does not
\* count, and a word that is no term
NavWords == { nav_terms[k] : k \in {1, 2, 3, 4, 7} } \cup { WordSalam }

\* texts that end with three of these words
NavTexts ==
    { StrFiller \o ChSpace \o a \o ChSpace \o b \o ChSpace \o c : a, b, c \in NavWords }

CleanInputs == SegmentTexts \cup BoundaryTexts \cup LabelTexts \cup NavTexts

PostWithContent(c) ==
    [content |-> c, username |-> <<>>, timestamp |-> <<>>, post_number |-> <<>>,
     user_info |-> <<>>]

InitClean ==
    /\ pc = "call"
    /\ arg \in CleanInputs
    /\ ret = Returned(<<>>)
    /\ ret2 = Returned(<<>>)
    /\ V1Idle
    /\ MainIdle
    /\ V2Idle

CallCleanContent ==
    /\ pc = "call"
    /\ ret' = Returned(clean_content(arg))
    /\ pc' = "cleaned"
    /\ UNCHANGED <<pages, all_posts, mainVars, arg, ret2, v2Vars>>

\* clean_content on the result of clean_content
CallCleanContentAgain ==
    /\ pc = "cleaned"
    /\ ret2' = Returned(clean_content(ret.value))
    /\ pc' = "done"
    /\ UNCHANGED <<pages, all_posts, mainVars, arg, ret, v2Vars>>

CallIsValidPost ==
    /\ pc = "call"
    /\ ret' = Returned(is_valid_post(Some(PostWithContent(arg))))
    /\ pc' = "validated"
    /\ UNCHANGED <<pages, all_posts, mainVars, arg, ret2, v2Vars>>

NextClean ==
    \/ CallCleanContent
    \/ CallCleanContentAgain
    \/ CallIsValidPost

SpecClean == InitClean /\ [][NextClean]_vars

\* C6: clean_content is idempotent: cleaning the result of clean_content
\* again gives the same text.
C6_CleanIdempotent == pc = "done" => ret2.value = ret.value

\* C7: is_valid_post rejects a content of exactly 29 characters and accepts
\* a content of exactly 30 characters that has a Persian character, at least
\* 5 words, and passes the metadata and navigation rules; clean_content
\* returns the empty string when the trimmed text has fewer than 30
\* characters and the trimmed text itself when it has exactly 30.
C7_LengthBoundary ==
    /\ pc = "validated" =>
         /\ Len(arg) = 29 => ret.value = FALSE
         /\ (/\ Len(arg) = 30
             /\ HasPersian(arg)
             /\ WordCount(arg) >= 5
             /\ ~IsMetadataOnly(Strip(arg))
             /\ NavRatio(arg) <= 2) => ret.value = TRUE
    /\ pc = "cleaned" =>
         /\ Len(CleanBody(arg)) < 30 => ret.value = <<>>
         /\ Len(CleanBody(arg)) = 30 => ret.value = CleanBody(arg) /\ Len(ret.value) = 30

\* C7 witness: a content of exactly 30 characters has been accepted
C7_Witness ==
    /\ pc = "validated"
    /\ Len(arg) = 30
    /\ ret.value = TRUE

\* the text the label pattern of line 151 matches at position i of s, after
\* the label, the colon and the whitespace
LabelValueAt(s, i) ==
    LET e == MatchLabelAt(s, i)
        RECURSIVE Start(_)
        Start(j) == IF j > i /\ (IsDigit(s[j - 1]) \/ s[j - 1] = 47) THEN Start(j - 1) ELSE j
    IN  SubSeq(s, Start(e), e - 1)

\* C17: clean_content removes every metadata label:value pair (one of the
\* labels, a colon, optional whitespace, digits or slashes) wherever it
\* occurs in the text: neither the label nor the value is in the result.
C17_LabelsRemoved ==
    pc = "cleaned" =>
        \A k \in 1..Len(MetadataLabels), i \in 1..Len(arg) :
            (OccursAt(arg, MetadataLabels[k] \o ChColon, i) /\ MatchLabelAt(arg, i) > 0) =>
                /\ ~Contains(ret.value, MetadataLabels[k])
                /\ ~Contains(ret.value, LabelValueAt(arg, i))

\* the terms of line 192 that occur in s, and the places where they occur
NavPhrasesPresent(s) == { k \in 1..4 : \E i \in 1..Len(s) : OccursAt(s, nav_terms[k], i) }
NavOccurrences(s) == { <<k, i>> \in (1..4) \X (1..Len(s)) : OccursAt(s, nav_terms[k], i) }

\* the rules of is_valid_post other than the navigation rule
OtherRulesHold(s) ==
    /\ Len(s) >= 30
    /\ ~IsMetadataOnly(Strip(s))
    /\ HasPersian(s)
    /\ WordCount(s) \in 5..200

\* C18 as stated: is_valid_post rejects a content in which the navigational
\* phrases occur more than twice, repeated occurrences of one phrase
\* counted each, and accepts a content in which they occur at most twice
\* and that passes the other rules.
C18_OccurrencesLimit ==
    pc = "validated" =>
        /\ Cardinality(NavOccurrences(arg)) > 2 => ret.value = FALSE
        /\ (Cardinality(NavOccurrences(arg)) <= 2 /\ OtherRulesHold(arg)) => ret.value = TRUE

\* C18: is_valid_post rejects a content in which more than two of the four
\* navigational phrases occur, a phrase counted once however often it
\* occurs, and accepts a content in which at most two of them occur and
\* that passes the other rules.
C18_DistinctPhrasesLimit ==
    pc = "validated" =>
        /\ Cardinality(NavPhrasesPresent(arg)) > 2 => ret.value = FALSE
        /\ (Cardinality(NavPhrasesPresent(arg)) <= 2 /\ OtherRulesHold(arg)) => ret.value = TRUE

\* C18 witness: a content with three occurrences of one phrase was accepted
C18_Witness ==
    /\ pc = "validated"
    /\ Cardinality(NavOccurrences(arg)) > 2
    /\ Cardinality(NavPhrasesPresent(arg)) = 1
    /\ ret.value = TRUE

-----------------------------------------------------------------------------
(* v2: extract_post_data, extract_posts_from_page, get_thread_info,        *)
(* get_total_pages and the duplicate filter of scrape_thread               *)

\* A div of a page, as the queries of extract_post_data see it: its
\* get_text(), the text of its username link, the text of its post-content
\* element (of the p in it, if there is one) and of its timestamp span
Div(text, username, post_content, timestamp_span) ==
    [text |-> text, username |-> username, post_content |-> post_content,
     timestamp_span |-> timestamp_span]

\* str.lower() on the characters of the model (ASCII letters have a case)
Lower(s) == [i \in 1..Len(s) |-> IF s[i] \in 65..90 THEN s[i] + 32 ELSE s[i]]

\* the smallest element of a non-empty set of numbers
MinOf(S) == CHOOSE i \in S : \A j \in S : i <= j

\* line 117: re.sub(r'عضویت:\s*\d{4}/\d{2}/\d{2}', '', content)
RECURSIVE RemoveMembershipDates(_)
RemoveMembershipDates(s) ==
    LET l == MetadataLabels[2] \o ChColon
        hits == { i \in 1..Len(s) :
                    OccursAt(s, l, i) /\ IsDateAt(s, SpacesEnd(s, i + Len(l))) }
    IN  IF hits = {} THEN s
        ELSE SubSeq(s, 1, MinOf(hits) - 1)
               \o RemoveMembershipDates(
                      SubSeq(s, SpacesEnd(s, MinOf(hits) + Len(l)) + 10, Len(s)))

\* line 118: re.sub(r'تعداد پست:\s*\d+', '', content)
RECURSIVE RemovePostCounts(_)
RemovePostCounts(s) ==
    LET l == MetadataLabels[1] \o ChColon
        ValueAt(i) == SpacesEnd(s, i + Len(l))
        hits == { i \in 1..Len(s) :
                    OccursAt(s, l, i) /\ DigitsEnd(s, ValueAt(i)) > ValueAt(i) }
    IN  IF hits = {} THEN s
        ELSE SubSeq(s, 1, MinOf(hits) - 1)
               \o RemovePostCounts(SubSeq(s, DigitsEnd(s, ValueAt(MinOf(hits))), Len(s)))

\* line 126: re.search(r'\d{4}/\d{2}/\d{2}\s*\|?\s*\d{2}:\d{2}', text):
\* group(0), or the empty string when there is no match
TimestampIn(s) ==
    LET TimeAt(i) ==
            LET a == SpacesEnd(s, i + 10)
            IN  IF a <= Len(s) /\ s[a] = 124 THEN SpacesEnd(s, a + 1) ELSE a
        IsTimeAt(j) ==
            /\ j + 4 <= Len(s)
            /\ \A k \in {0, 1, 3, 4} : IsDigit(s[j + k])
            /\ s[j + 2] = 58
        hits == { i \in 1..Len(s) : IsDateAt(s, i) /\ IsTimeAt(TimeAt(i)) }
    IN  IF hits = {} THEN <<>>
        ELSE SubSeq(s, MinOf(hits), TimeAt(MinOf(hits)) + 4)

\* lines 89-134, extract_post_data(post_elem) of v2: None, or Some(post)
v2_extract_post_data(post_elem) ==
    LET content ==
            IF IsSome(post_elem.post_content)
            THEN Strip(Get(post_elem.post_content))
            ELSE RemovePostCounts(RemoveMembershipDates(Strip(post_elem.text)))
        post_data ==
            [ content |-> clean_content(content),
              username |-> IF IsSome(post_elem.username)
                           THEN Strip(Get(post_elem.username)) ELSE <<>>,
              timestamp |-> IF IsSome(post_elem.timestamp_span)
                            THEN Strip(Get(post_elem.timestamp_span))
                            ELSE TimestampIn(post_elem.text),
              post_number |-> <<>>,
              user_info |-> <<>> ]
    IN  IF post_data.content # <<>> THEN Some(post_data) ELSE None

\* line 70: 'login', 'register', 'menu', 'navigation', 'footer', 'header'
ui_terms ==
    << <<108, 111, 103, 105, 110>>, <<114, 101, 103, 105, 115, 116, 101, 114>>,
       <<109, 101, 110, 117>>, <<110, 97, 118, 105, 103, 97, 116, 105, 111, 110>>,
       <<102, 111, 111, 116, 101, 114>>, <<104, 101, 97, 100, 101, 114>> >>

\* lines 63-80: the div is skipped before extraction
SkipDiv(text) ==
    \/ Len(text) < 50
    \/ \E k \in 1..Len(ui_terms) : Contains(Lower(text), ui_terms[k])
    \/ Cardinality({ t \in { nav_terms[1], nav_terms[2], nav_terms[3],
                             nav_terms[4], nav_terms[7] } : Contains(text, t) }) > 3
    \/ ~HasPersian(text)

\* lines 62-85: the posts of the divs from div number i on
RECURSIVE PostsOfDivs(_, _)
PostsOfDivs(all_divs, i) ==
    IF i > Len(all_divs) THEN <<>>
    ELSE LET div == all_divs[i]
             post_data == v2_extract_post_data(div)
         IN  IF SkipDiv(Strip(div.text)) THEN PostsOfDivs(all_divs, i + 1)
             ELSE IF IsSome(post_data) /\ is_valid_post(post_data)
                  THEN <<Get(post_data)>> \o PostsOfDivs(all_divs, i + 1)
                  ELSE PostsOfDivs(all_divs, i + 1)

\* extract_posts_from_page(soup)
extract_posts_from_page(soup) == PostsOfDivs(soup.divs, 1)

\* the value of a hexadecimal digit, -1 for another character
HexVal(c) ==
    IF c \in 48..57 THEN c - 48
    ELSE IF c \in 65..70 THEN c - 55
    ELSE IF c \in 97..102 THEN c - 87
    ELSE -1

\* urllib.parse.unquote(s): every %XX becomes the character it encodes.  An
\* escape of a byte above 127 that is not part of a UTF-8 sequence becomes
\* U+FFFD; the URLs of the model hold no UTF-8 sequence of escapes.
RECURSIVE Unquote(_)
Unquote(s) ==
    LET hits == { i \in 1..(Len(s) - 2) :
                    s[i] = 37 /\ HexVal(s[i + 1]) >= 0 /\ HexVal(s[i + 2]) >= 0 }
        i == MinOf(hits)
        byte == 16 * HexVal(s[i + 1]) + HexVal(s[i + 2])
    IN  IF hits = {} THEN s
        ELSE SubSeq(s, 1, i - 1) \o <<IF byte < 128 THEN byte ELSE 65533>>
               \o Unquote(SubSeq(s, i + 3, Len(s)))

\* get_thread_info(url): the thread id and title, or ValueError
get_thread_info(url) ==
    LET path_parts == Split(UrlPath(url), 47)
    IN  IF Len(path_parts) >= 4 /\ path_parts[3] = StrTopic
        THEN Returned(<< path_parts[4],
                         IF Len(path_parts) > 4 THEN Unquote(path_parts[5])
                         ELSE <<117, 110, 116, 105, 116, 108, 101, 100>> >>)   \* "untitled"
        ELSE Raised

\* line 209: int(re.search(r'page=(\d+)', href).group(1)), for an href the
\* pattern matches
PageNumberOf(href) ==
    LET hits == { i \in 1..Len(href) :
                    OccursAt(href, Lit.PageEq, i) /\ DigitsEnd(href, i + 5) > i + 5 }
    IN  IntVal(SubSeq(href, MinOf(hits) + 5, DigitsEnd(href, MinOf(hits) + 5) - 1))

\* line 204: href=re.compile(r'page=\d+')
IsPageLink(href) ==
    \E i \in 1..Len(href) : OccursAt(href, Lit.PageEq, i) /\ DigitsEnd(href, i + 5) > i + 5

\* line 216: re.search(r'(\d+)\s*صفحه|page\s*(\d+)', text, re.IGNORECASE):
\* the number in the match, -1 when there is no match
PaginationNumberIn(text) ==
    LET low == Lower(text)
        CountAt(i) ==
            IsDigit(text[i])
              /\ OccursAt(text, <<1589, 1601, 1581, 1607>>, SpacesEnd(text, DigitsEnd(text, i)))
        PageAt(i) ==
            OccursAt(low, <<112, 97, 103, 101>>, i)
              /\ DigitsEnd(text, SpacesEnd(text, i + 4)) > SpacesEnd(text, i + 4)
        hits == { i \in 1..Len(text) : CountAt(i) \/ PageAt(i) }
        i == MinOf(hits)
    IN  IF hits = {} THEN -1
        ELSE IF CountAt(i) THEN IntVal(SubSeq(text, i, DigitsEnd(text, i) - 1))
        ELSE IntVal(SubSeq(text, SpacesEnd(text, i + 4),
                           DigitsEnd(text, SpacesEnd(text, i + 4)) - 1))

\* get_total_pages(soup)
get_total_pages(soup) ==
    LET page_links == SelectSeq(soup.hrefs, IsPageLink)
        page_numbers == { PageNumberOf(page_links[k]) : k \in 1..Len(page_links) }
    IN  IF page_links # <<>>
        THEN CHOOSE n \in page_numbers : \A m \in page_numbers : n >= m
        ELSE IF PaginationNumberIn(soup.text) >= 0 THEN PaginationNumberIn(soup.text)
        ELSE 1

HashPrefixLen == 100    \* line 255: post['content'][:100]

\* line 255: hash(post['content'][:100]).  hash() of a str is a keyed 64-bit
\* hash, different from process to process: hashfn is the hash function of
\* this process, a function that need not be injective.
content_hash(post) == hashfn[Prefix(post.content, HashPrefixLen)]

\* The mutant of UniquePostsFrom: a new post is put at the front
RECURSIVE UniquePostsPrepend(_, _)
UniquePostsPrepend(ps, seen_content) ==
    IF ps = <<>> THEN <<>>
    ELSE IF content_hash(Head(ps)) \notin seen_content
         THEN UniquePostsPrepend(Tail(ps), seen_content \cup {content_hash(Head(ps))})
                \o <<Head(ps)>>
         ELSE UniquePostsPrepend(Tail(ps), seen_content)

\* The mutant of UniquePostsFrom: the hash of a kept post is not recorded
RECURSIVE UniquePostsForgetful(_, _)
UniquePostsForgetful(ps, seen_content) ==
    IF ps = <<>> THEN <<>>
    ELSE IF content_hash(Head(ps)) \notin seen_content
         THEN <<Head(ps)>> \o UniquePostsForgetful(Tail(ps), seen_content)
         ELSE UniquePostsForgetful(Tail(ps), seen_content)

\* lines 252-258: unique_posts for the posts ps still to visit, with the
\* hashes seen so far
RECURSIVE UniquePostsFrom(_, _)
UniquePostsFrom(ps, seen_content) ==
    IF ps = <<>> THEN <<>>
    ELSE IF content_hash(Head(ps)) \notin seen_content
         THEN <<Head(ps)>>
                \o UniquePostsFrom(Tail(ps), seen_content \cup {content_hash(Head(ps))})
         ELSE UniquePostsFrom(Tail(ps), seen_content)

-----------------------------------------------------------------------------
(* Specification SpecV2: scrape_thread(url) of a NiniesiteScraper          *)

MaxV2Pages == 2      \* the highest page number a page of the model links to
NumHashValues == 3   \* values hash() takes on the prefixes of the model

\* 100 characters of Persian text, and a different 100
TextA == Rep(WordSalam \o ChSpace, 20)
TextB == Rep(<<1583, 1585, 1608, 1583, 32>>, 20)                \* "درود " x 20
\* 81 characters
TextC == StrFiller \o ChSpace \o StrFiller

\* the divs of the model: two whose contents differ only after character
\* 100, one with a timestamp in its text, one with a post-content element,
\* one with the same content after a membership line, one without Persian
DivA1 ==
    Div(TextA \o <<1740, 1705, 32, 1583, 1608>>, Some(ChSpace \o NameAli \o ChSpace), None,
        Some(<<49, 52, 48, 48, 47, 48, 49, 47, 48, 50, 32, 49, 50, 58, 51, 48>>))
DivA2 == Div(TextA \o <<1587, 1607>>, None, None, None)
DivB ==
    Div(ChSpace \o TextB
          \o <<32, 49, 52, 48, 48, 47, 48, 49, 47, 48, 50, 32, 124, 32, 49, 50, 58, 51, 48>>,
        None, None, None)                                       \* ... " 1400/01/02 | 12:30"
DivC == Div(TextC \o ChNewline, None, Some(TextC), None)
DivC2 ==
    Div(<<1593, 1590, 1608, 1740, 1578, 58, 32, 49, 52, 48, 48, 47, 48, 49, 47, 48, 50, 32>>
          \o TextC, Some(NameBob), None, None)                  \* "عضویت: 1400/01/02 " ...
DivLatin == Div(Rep(WordHello \o ChSpace, 12), None, None, None)
\* divs of 4, 5, 200 and 201 words of Persian letters; the long ones start
\* with the 20 words of TextA
DivW4 == Div(WordsText(1587, 4, 55), None, None, None)
DivW5 == Div(WordsText(1587, 5, 55), None, None, None)
DivW200 == Div(ChSpace \o TextA \o Rep(<<1587, 32>>, 180), None, None, None)
DivW201 == Div(TextA \o Rep(<<1587, 32>>, 181), None, None, None)

\* a page: its divs, the hrefs of its links and its get_text()
Soup(divs, hrefs, other_text) ==
    [divs |-> divs, hrefs |-> hrefs,
     text |-> Concat([k \in 1..Len(divs) |-> divs[k].text]) \o other_text]

\* the pages the server of the model can answer with
SoupList ==
    << Soup(<<DivA1, DivB, DivLatin>>,
           <<Lit.QPage \o <<49>>, Lit.QPage \o IntToStr(MaxV2Pages)>>, <<>>),
      Soup(<<DivA2, DivC>>, <<>>,
           IntToStr(MaxV2Pages) \o <<32, 1589, 1601, 1581, 1607>>),   \* "N صفحه"
      Soup(<<DivC2, DivA1>>, <<StrBaseUrl>>, <<>>),
      Soup(<<DivW4, DivW5, DivW200, DivW201>>, <<>>, <<>>),
      Soup(<<>>, <<>>, <<>>) >>

Soups == Range(SoupList)

\* extract_posts_from_page and get_total_pages on the pages of the model
PostsOfSoup == [soup \in Soups |-> extract_posts_from_page(soup)]
TotalPagesOfSoup == [soup \in Soups |-> get_total_pages(soup)]

\* the strings hash() is called on
HashDomain ==
    UNION { { Prefix(PostsOfSoup[soup][k].content, HashPrefixLen) :
                k \in 1..Len(PostsOfSoup[soup]) } : soup \in Soups }

\* a URL of a topic, one with an escape in the title, one that is no topic
V2Urls ==
    { StrBaseUrl,
      <<104, 116, 116, 112, 115, 58, 47, 47, 119, 119, 119, 46, 110, 105, 110, 105, 115, 105, 116, 101, 46, 99, 111, 109, 47, 100, 105, 115, 99, 117, 115, 115, 105, 111, 110, 47, 116, 111, 112, 105, 99, 47, 52, 53, 47, 97, 37, 52, 49>>,    \* "https://www.ninisite.com/discussion/topic/45/a%41"
      <<104, 116, 116, 112, 115, 58, 47, 47, 119, 119, 119, 46, 110, 105, 110, 105, 115, 105, 116, 101, 46, 99, 111, 109, 47>> }    \* "https://www.ninisite.com/"

\* the local variables of scrape_thread
V2Local(total_pages, page_num) == Some([total_pages |-> total_pages, page_num |-> page_num])

InitV2 ==
    /\ pc = "get_thread_info"
    /\ arg \in V2Urls
    /\ hashfn \in [HashDomain -> 1..NumHashValues]
    /\ self_posts = <<>>
    /\ self_metadata = None
    /\ v2_local = None
    /\ all_posts = <<>>
    /\ pages = <<>>
    /\ ret = Returned(<<>>)
    /\ ret2 = Returned(<<>>)
    /\ MainIdle

\* lines 226-234: get_thread_info and the new self.metadata; scraped_at is the
\* time of the call
V2GetThreadInfo ==
    /\ pc = "get_thread_info"
    /\ IF get_thread_info(arg).raised
       THEN /\ pc' = "failed"
            /\ err' = "Invalid Niniesite URL format"
            /\ UNCHANGED self_metadata
       ELSE /\ pc' = "first_page"
            /\ self_metadata' = Some([ thread_id |-> get_thread_info(arg).value[1],
                                       thread_title |-> get_thread_info(arg).value[2],
                                       source_url |-> arg,
                                       scraped_at |-> StrNow,
                                       total_pages |-> 0,
                                       total_posts |-> 0 ])
            /\ UNCHANGED err
    /\ UNCHANGED <<pages, all_posts, steps, writer, streaming, paginate, args_out,
                   metadata, org_content, output, fnVars, hashfn, self_posts, v2_local>>

\* lines 237-244: the first page is fetched for the number of pages
V2FetchFirstPage ==
    /\ pc = "first_page"
    /\ \E soup \in Soups :
         /\ self_metadata' = Some([Get(self_metadata) EXCEPT
                                      !.total_pages = TotalPagesOfSoup[soup]])
         /\ v2_local' = V2Local(TotalPagesOfSoup[soup], 1)
    /\ pc' = "scrape_pages"
    /\ UNCHANGED <<pages, all_posts, mainVars, fnVars, hashfn, self_posts>>

\* lines 245-249: one round of the loop over the pages; pages keeps which
\* pages of SoupList the loop has fetched
V2ScrapePage ==
    /\ pc = "scrape_pages"
    /\ Get(v2_local).page_num <= Get(v2_local).total_pages
    /\ \E n \in 1..Len(SoupList) :
         /\ all_posts' = all_posts \o PostsOfSoup[SoupList[n]]
         /\ pages' = Append(pages, n)
    /\ v2_local' = V2Local(Get(v2_local).total_pages, Get(v2_local).page_num + 1)
    /\ UNCHANGED <<pc, mainVars, fnVars, hashfn, self_posts, self_metadata>>

\* line 52: response.raise_for_status() raises and scrape_thread ends with
\* the exception
V2FetchFails ==
    /\ \/ pc = "first_page"
       \/ pc = "scrape_pages" /\ Get(v2_local).page_num <= Get(v2_local).total_pages
    /\ pc' = "failed"
    /\ err' = "HTTPError"
    /\ UNCHANGED <<pages, all_posts, steps, writer, streaming, paginate, args_out,
                   metadata, org_content, output, fnVars, v2Vars>>

\* lines 251-264: the duplicates are removed, self.posts and total_posts set
V2RemoveDuplicates ==
    /\ pc = "scrape_pages"
    /\ Get(v2_local).page_num > Get(v2_local).total_pages
    /\ self_posts' = UniquePostsFrom(all_posts, {})
    /\ self_metadata' = Some([Get(self_metadata) EXCEPT
                                 !.total_posts = Len(UniquePostsFrom(all_posts, {}))])
    /\ pc' = "done"
    /\ UNCHANGED <<pages, all_posts, mainVars, fnVars, hashfn, v2_local>>

NextV2 ==
    \/ V2GetThreadInfo
    \/ V2FetchFirstPage
    \/ V2ScrapePage
    \/ V2FetchFails
    \/ V2RemoveDuplicates

SpecV2 == InitV2 /\ [][NextV2]_vars

ContentPrefix(post) == Prefix(post.content, HashPrefixLen)

\* C3: the duplicate filter of scrape_thread gives a subsequence of its
\* input: the posts it keeps are posts of the input, unchanged, each at its
\* first occurrence, in the order of the input.
C3_DedupIsSubsequence ==
    pc = "done" =>
        \E f \in [1..Len(self_posts) -> 1..Len(all_posts)] :
            /\ \A j, k \in 1..Len(self_posts) : j < k => f[j] < f[k]
            /\ \A k \in 1..Len(self_posts) :
                 /\ self_posts[k] = all_posts[f[k]]
                 /\ \A i \in 1..(f[k] - 1) : all_posts[i] # self_posts[k]

\* C3 witness: a duplicate was dropped between posts that were kept
C3_Witness ==
    /\ pc = "done"
    /\ Len(self_posts) >= 2
    /\ \E i, j, k \in 1..Len(all_posts) :
         /\ i < j /\ j < k
         /\ ContentPrefix(all_posts[j]) = ContentPrefix(all_posts[i])
         /\ self_posts[1] = all_posts[i]
         /\ self_posts[2] = all_posts[k]

\* C4 as stated: no two kept posts have the same first 100 characters, every
\* input post has a kept post with the same first 100 characters, and the
\* kept post of a prefix is the earliest input post with that prefix.
C4_Original ==
    pc = "done" =>
        /\ \A j, k \in 1..Len(self_posts) :
             j # k => ContentPrefix(self_posts[j]) # ContentPrefix(self_posts[k])
        /\ \A i \in 1..Len(all_posts) : \E k \in 1..Len(self_posts) :
             ContentPrefix(self_posts[k]) = ContentPrefix(all_posts[i])
        /\ \A k \in 1..Len(self_posts) :
             self_posts[k] = all_posts[MinOf({ i \in 1..Len(all_posts) :
                 ContentPrefix(all_posts[i]) = ContentPrefix(self_posts[k]) })]

\* C4 amended: no two kept posts have the same first 100 characters or the
\* same hash of them, every input post has a kept post with the same hash of
\* its first 100 characters, and the kept post of a hash value is the
\* earliest input post with that hash value.
C4_DedupByPrefixHash ==
    pc = "done" =>
        /\ \A j, k \in 1..Len(self_posts) :
             j # k => /\ ContentPrefix(self_posts[j]) # ContentPrefix(self_posts[k])
                      /\ content_hash(self_posts[j]) # content_hash(self_posts[k])
        /\ \A i \in 1..Len(all_posts) : \E k \in 1..Len(self_posts) :
             content_hash(self_posts[k]) = content_hash(all_posts[i])
        /\ \A k \in 1..Len(self_posts) :
             self_posts[k] = all_posts[MinOf({ i \in 1..Len(all_posts) :
                 content_hash(all_posts[i]) = content_hash(self_posts[k]) })]

\* C4 witness: of two posts that differ only after character 100 the first
\* was kept and the second dropped
C4_Witness ==
    /\ pc = "done"
    /\ \E i, j \in 1..Len(all_posts) :
         /\ i < j
         /\ all_posts[i].content # all_posts[j].content
         /\ ContentPrefix(all_posts[i]) = ContentPrefix(all_posts[j])
         /\ \E k \in 1..Len(self_posts) : self_posts[k] = all_posts[i]
         /\ \A k \in 1..Len(self_posts) : self_posts[k] # all_posts[j]

\* the candidates of a page: the posts extract_post_data gives for the divs
\* that are not skipped before extraction
CandidatesOfSoup ==
    [soup \in Soups |->
        { Get(v2_extract_post_data(soup.divs[d])) :
            d \in { x \in 1..Len(soup.divs) :
                      /\ ~SkipDiv(Strip(soup.divs[x].text))
                      /\ IsSome(v2_extract_post_data(soup.divs[x])) } }]

\* the candidates of the pages fetched so far
Candidates == UNION { CandidatesOfSoup[SoupList[pages[p]]] : p \in 1..Len(pages) }

\* what the rules of is_valid_post see in the content of a candidate: the
\* number of words, a character in U+0600..U+06FF, and the rules on the
\* length, the metadata patterns and the navigational phrases
CandidateFacts ==
    [c \in UNION { CandidatesOfSoup[soup] : soup \in Soups } |->
        [ words |-> WordCount(c.content),
          persian |-> HasPersian(c.content),
          other_rules |-> /\ Len(c.content) >= 30
                          /\ ~IsMetadataOnly(Strip(c.content))
                          /\ Cardinality(NavPhrasesPresent(c.content)) <= 2 ]]

\* C19: every post of the final list of scrape_thread has a character in
\* U+0600..U+06FF in its content and between 5 and 200 words; a candidate
\* of 4 or of 201 words is in no list, and a candidate of exactly 5 or
\* exactly 200 words that passes the other rules of is_valid_post is among
\* the extracted posts and, but for the duplicate filter, in the final list.
C19_WordCountRange ==
    /\ \A k \in 1..Len(self_posts) :
         /\ CandidateFacts[self_posts[k]].persian
         /\ CandidateFacts[self_posts[k]].words \in 5..200
    /\ \A c \in Candidates :
         /\ CandidateFacts[c].words \in {4, 201} =>
              /\ \A k \in 1..Len(all_posts) : all_posts[k] # c
              /\ \A k \in 1..Len(self_posts) : self_posts[k] # c
         /\ (/\ CandidateFacts[c].words \in {5, 200}
             /\ CandidateFacts[c].persian
             /\ CandidateFacts[c].other_rules) =>
              /\ \E k \in 1..Len(all_posts) : all_posts[k] = c
              /\ pc = "done" =>
                   \E k \in 1..Len(self_posts) :
                       hashfn[ContentPrefix(self_posts[k])] = hashfn[ContentPrefix(c)]

\* C19 witness: the page with the candidates of 4, 5, 200 and 201 words was
\* scraped, and the final list has the posts of 5 and of 200 words
C19_Witness ==
    /\ pc = "done"
    /\ \A n \in {4, 5, 200, 201} : \E c \in Candidates : CandidateFacts[c].words = n
    /\ \A n \in {5, 200} :
         \E k \in 1..Len(self_posts) : CandidateFacts[self_posts[k]].words = n

-----------------------------------------------------------------------------
(* Specification SpecE2E: extract_posts on two pages, page 1 with the main *)
(* topic and two replies, page 2 with one reply whose content has the      *)
(* first 100 characters of the content of the first reply of page 1        *)

\* the contents of the first reply of page 1 and of the reply of page 2
DuplicateContents ==
    { <<TextA \o <<1740, 1705>>, TextA \o <<1740, 1705>>>>,
      <<TextA \o <<1740, 1705>>, TextA \o <<1587, 1607>>>>,
      <<TextC, TextC>>,
      <<WordSalam, WordSalam>> }

\* the two pages of the scenario
ScenarioPages(dup, second, last_id, last_author) ==
    << Page(Some(StrTitle),
            << Article(Some(StrTopic), FALSE, Some(NameAli), Some(Rep(<<65>>, 40))),
               Article(Some(StrPost1), FALSE, Some(NameBob), Some(dup[1])),
               Article(Some(StrPost2), FALSE, Some(NameAli), Some(second)) >>),
       Page(Some(StrTitle),
            << Article(Some(last_id), FALSE, Some(last_author), Some(dup[2])) >>) >>

InitE2E ==
    /\ pc = "fetching"
    /\ \E dup \in DuplicateContents, second \in {TextB, WordHello},
          last_id \in {StrPost1, StrPost3}, last_author \in {NameAli, NameBob} :
         arg = ScenarioPages(dup, second, last_id, last_author)
    /\ pages = <<>>
    /\ all_posts = <<>>
    /\ ret = Returned(<<>>)
    /\ ret2 = Returned(<<>>)
    /\ MainIdle
    /\ V2Idle

\* the page source delivers the next page of the scenario
E2EFetchPage ==
    /\ pc = "fetching"
    /\ Len(pages) < Len(arg)
    /\ pages' = Append(pages, arg[Len(pages) + 1])
    /\ UNCHANGED <<pc, all_posts, mainVars, fnVars, v2Vars>>

\* extract_posts(pages) on the pages of the scenario
E2EExtractPosts ==
    /\ pc = "fetching"
    /\ Len(pages) = Len(arg)
    /\ all_posts' = extract_posts(pages)
    /\ pc' = "extracted"
    /\ UNCHANGED <<pages, mainVars, fnVars, v2Vars>>

NextE2E == E2EFetchPage \/ E2EExtractPosts

SpecE2E == InitE2E /\ [][NextE2E]_vars

-----------------------------------------------------------------------------
(* Specification SpecPost: extract_posts reads a page with one article and *)
(* the formatter formats the post (_format_post_streaming / _format_post). *)

\* the texts of the span of the like-count link: "", "0", "5", " 7 ", "00",
\* "+4", "-3", "1_0", Persian digits for 12, "abc", "1.2k", "1,234"
LikeTexts ==
    { <<>>, <<48>>, <<53>>, <<32, 55, 32>>, <<48, 48>>, <<43, 52>>, <<45, 51>>,
      <<49, 95, 48>>, <<1777, 1778>>, <<97, 98, 99>>, <<49, 46, 50, 107>>,
      <<49, 44, 50, 51, 52>> }

\* the texts of the author element: "", " ", a name in Persian script, "Bob",
\* "Unknown"
AuthorTexts == { <<>>, ChSpace, NameAli, NameBob, Lit.Unknown }

\* the values of the content attribute of the datepublished element
DateValues ==
    { None, Some(<<>>), Some(StrGarbage),
      Some(<<55, 47, 52, 47, 50, 48, 50, 51, 32, 56, 58, 48, 50, 58, 52, 56, 32, 65, 77>>) }

\* the articles of this specification: every element but the id is optional
PostArticles ==
    { [ id |-> Some(id), ad |-> FALSE, author |-> author, message |-> message,
        likes |-> likes, date |-> date ] :
        id \in {StrTopic, StrPost1},
        author \in {None} \cup { Some(t) : t \in AuthorTexts },
        message \in {None, Some(WordSalam \o ChNewline \o WordHello)},
        likes \in {None} \cup { Some(t) : t \in LikeTexts },
        date \in {None} \cup { Some(v) : v \in DateValues } }

InitPost ==
    /\ pc = "page"
    /\ arg \in PostArticles
    /\ pages = << Page(None, <<arg>>) >>
    /\ all_posts = <<>>
    /\ ret = Returned(<<>>)
    /\ ret2 = Returned(<<>>)
    /\ MainIdle
    /\ V2Idle

\* extract_posts(pages)
PostExtract ==
    /\ pc = "page"
    /\ all_posts' = extract_posts(pages)
    /\ pc' = "extracted"
    /\ UNCHANGED <<pages, mainVars, fnVars, v2Vars>>

\* _format_post_streaming(post, writer, heading_level) / _format_post: the
\* lines written, or the exception that escapes
PostFormat ==
    /\ pc = "extracted"
    /\ all_posts # <<>>
    /\ \E heading_level \in {Lit.Level2, Lit.Level3} :
           ret' = IF FormatPostRaises(all_posts[1]) THEN Raised
                  ELSE Returned(FormatPost(all_posts[1], heading_level))
    /\ pc' = "formatted"
    /\ UNCHANGED <<pages, all_posts, mainVars, arg, ret2, v2Vars>>

NextPost == PostExtract \/ PostFormat

SpecPost == InitPost /\ [][NextPost]_vars

\* C15 as stated: for every post the extractor can produce (optional fields
\* absent, a date without value, a like-count text that is empty or not a
\* decimal number) formatting the post completes without raising.
C15_FormatNeverRaises ==
    pc = "formatted" => ~ret.raised

\* C16 as stated: a post whose author is empty, because the author element
\* is absent or because its text is empty, is presented under the name
\* 'Unknown' in the post heading, and counts as the author 'Unknown' in the
\* distinct-author count.
C16_EmptyAuthorIsUnknown ==
    (pc = "formatted" /\ ~ret.raised /\ ~Truthy(all_posts[1].author)) =>
        /\ \E k \in 1..Len(ret.value[1]) :
               OccursAt(ret.value[1],
                        ChSpace \o Lit.Unknown \o ChSpace \o Lit.BracketOpen, k)
        /\ UniqueAuthors(<< all_posts[1],
                            [all_posts[1] EXCEPT !.author = Some(Lit.Unknown)] >>) = 1

-----------------------------------------------------------------------------
(* Specification SpecEquiv: format_org_mode_streaming and format_org_mode  *)
(* are called on the same metadata, posts, URL and paginate flag           *)

\* the list in reverse order
Reverse(q) == [ i \in 1..Len(q) |-> q[Len(q) + 1 - i] ]

\* lines 394-475: the lines format_org_mode_streaming passes to
\* writer.writeln, up to the exception if one is raised
StreamedLines(md, ps, base_url, pag) ==
    FormatTitle(md) \o FormatHeader(md, ps, base_url)
        \o (IF FormatRaises(ps) THEN FormatBodyPartial(ps, base_url, pag)
            ELSE FormatBody(ps, base_url, pag))

\* the posts of one or two pages of SpecScrape, in the order of extract_posts
\* or in the opposite order
InitEquiv ==
    /\ pc = "format"
    /\ pages \in SeqsUpTo(ScrapePages, MaxScrapePages) \ { <<>> }
    /\ all_posts \in { extract_posts(pages), Reverse(extract_posts(pages)) }
    /\ metadata = extract_topic_metadata(pages[1])
    /\ arg \in ScrapeUrls
    /\ paginate \in BOOLEAN
    /\ err = ""
    /\ steps = <<>>
    /\ writer = NoWriter
    /\ streaming = FALSE
    /\ args_out = None
    /\ org_content = None
    /\ output = <<>>
    /\ ret = Returned(<<>>)
    /\ ret2 = Returned(<<>>)
    /\ V2Idle

\* format_org_mode_streaming(metadata, posts, base_url, writer, paginate):
\* the lines passed to writer.writeln, and whether an exception escaped
EquivStreaming ==
    /\ pc = "format"
    /\ ret' = [ raised |-> FormatRaises(all_posts),
                value |-> StreamedLines(metadata, all_posts, arg, paginate) ]
    /\ pc' = "streamed"
    /\ UNCHANGED <<pages, all_posts, mainVars, arg, ret2, v2Vars>>

\* format_org_mode(metadata, posts, base_url, paginate): the lines appended
\* to org_content, whether an exception escaped, and the lines returned
EquivNonStreaming ==
    /\ pc = "streamed"
    /\ ret2' = [ raised |-> format_org_mode_run(metadata, all_posts, arg, paginate).raised,
                 value |-> format_org_mode(metadata, all_posts, arg, paginate) ]
    /\ org_content' = (IF format_org_mode_run(metadata, all_posts, arg, paginate).raised
                       THEN None
                       ELSE Some(format_org_mode(metadata, all_posts, arg, paginate)))
    /\ pc' = "both"
    /\ UNCHANGED <<pages, all_posts, err, steps, writer, streaming, paginate, args_out,
                   metadata, output, arg, ret, v2Vars>>

NextEquiv == EquivStreaming \/ EquivNonStreaming

SpecEquiv == InitEquiv /\ [][NextEquiv]_vars

\* C22: for the same metadata, posts, base URL and paginate flag, the lines
\* format_org_mode_streaming passes to writer.writeln are the lines
\* format_org_mode appends to org_content and joins into its result, with
\* and without pagination; one raises exactly when the other does, after
\* the same lines.
C22_StreamingEqualsNonStreaming ==
    pc = "both" =>
        /\ ret.raised = ret2.raised
        /\ ret.value = ret2.value
        /\ ~ret.raised => org_content = Some(ret.value)

\* C22 witness: posts of two pages, given in descending page order, were
\* formatted with pagination by both; the heading of page 1 comes before
\* the heading of page 2
C22_Witness ==
    /\ pc = "both"
    /\ paginate
    /\ ~ret.raised
    /\ Len(all_posts) >= 3
    /\ all_posts[1].page = 2
    /\ org_content = Some(ret.value)
    /\ \E i, j \in 1..Len(ret.value) :
         /\ i < j
         /\ ret.value[i] = PageHeading(arg, 1)
         /\ ret.value[j] = PageHeading(arg, 2)

-----------------------------------------------------------------------------
(* Specification SpecCalls: scrape_thread is called twice on one           *)
(* NiniesiteScraper instance                                               *)

\* the values of hash() in this specification: all prefixes alike, and the
\* prefix of TextA apart from the others
CallsHashFns ==
    { [d \in HashDomain |-> 1],
      [d \in HashDomain |-> IF d = Prefix(TextA, HashPrefixLen) THEN 1 ELSE 2] }

\* lines 23-29: a new instance, and the first call
InitCalls ==
    /\ pc = "get_thread_info"
    /\ arg \in V2Urls
    /\ hashfn \in CallsHashFns
    /\ self_posts = <<>>
    /\ self_metadata = None
    /\ v2_local = None
    /\ all_posts = <<>>
    /\ pages = <<>>
    /\ ret = Returned(<<>>)
    /\ ret2 = Returned(<<>>)
    /\ MainIdle

\* the first call has returned or failed and scrape_thread is called again
\* on the instance: its locals are new, self.posts and self.metadata are
\* those the first call left; steps keeps how the first call ended and its
\* URL
V2CallAgain ==
    /\ pc \in {"done", "failed"}
    /\ steps = <<>>
    /\ steps' = << <<pc, arg>> >>
    /\ arg' \in V2Urls
    /\ pc' = "get_thread_info"
    /\ err' = ""
    /\ all_posts' = <<>>
    /\ pages' = <<>>
    /\ v2_local' = None
    /\ UNCHANGED <<writer, streaming, paginate, args_out, metadata, org_content, output,
                   ret, ret2, hashfn, self_posts, self_metadata>>

NextCalls ==
    \/ V2GetThreadInfo
    \/ V2FetchFirstPage
    \/ V2ScrapePage
    \/ V2FetchFails
    \/ V2RemoveDuplicates
    \/ V2CallAgain

SpecCalls == InitCalls /\ [][NextCalls]_vars

\* C23: after every call of scrape_thread that has returned or failed,
\* metadata['total_posts'] is len(posts), and a failed call on another
\* thread leaves the metadata of the earlier thread with the posts of the
\* earlier thread.
C23_InstanceConsistent ==
    pc \in {"done", "failed"} =>
        /\ IsSome(self_metadata) => Get(self_metadata).total_posts = Len(self_posts)
        /\ ~IsSome(self_metadata) => self_posts = <<>>
        /\ (/\ pc = "failed"
            /\ steps # <<>>
            /\ steps[1][1] = "done"
            /\ steps[1][2] # arg
            /\ self_posts # <<>>) => Get(self_metadata).source_url = steps[1][2]

-----------------------------------------------------------------------------
(* Specification SpecPages: get_all_pages(base_url) on a site whose pages  *)
(* are linked by 'Next page' links, base URL first                         *)

MaxChain == 3    \* URLs of the chain that starts at the base URL

StrHash == <<35>>                                        \* "#"
StrNextHref == <<63, 112, 97, 103, 101, 61, 110>>        \* "?page=n"

\* What the server answers for a URL: ok is FALSE when the request fails
\* (fetch_page returns None); pagination says whether the page has a
\* <ul class="pagination">; next is None when that block has no
\* <a title="Next page">, Some(None) when the link has no href attribute,
\* Some(Some(href)) otherwise
PageKinds ==
    { [ok |-> FALSE, pagination |-> FALSE, next |-> None],
      [ok |-> TRUE, pagination |-> FALSE, next |-> None] }
    \cup { [ok |-> TRUE, pagination |-> TRUE, next |-> n] :
             n \in { None, Some(None), Some(Some(<<>>)), Some(Some(StrHash)),
                     Some(Some(StrNextHref)) } }

\* the sites: the answers for the URLs of the chain, URL number 1 the base
\* URL, the href of page k leading to URL number k + 1
Sites ==
    UNION { { [ k \in 1..n |-> [ url |-> k, ok |-> kinds[k].ok,
                                 pagination |-> kinds[k].pagination,
                                 next |-> kinds[k].next ] ] :
                kinds \in [1..n -> PageKinds] } : n \in 1..MaxChain }

\* the highest page number in the pagination block of the base URL's page
ReportedCounts == {1, 2, 5}

\* lines 84-92, fetch_page(url): None, or Some(soup)
fetch_page(site, url) ==
    IF url \in 1..Len(site) /\ site[url].ok THEN Some(site[url]) ELSE None

\* lines 94-123, detect_total_pages(base_url)
detect_total_pages(site, reported) ==
    IF ~IsSome(fetch_page(site, 1)) THEN 1
    ELSE IF ~Get(fetch_page(site, 1)).pagination THEN 1
    ELSE Max(1, reported)

\* The mutant of NextUrl: a link with href '#' is followed
NextUrlFollowsHash(soup, current_url) ==
    IF soup.pagination /\ IsSome(soup.next) /\ Truthy(Get(soup.next))
    THEN Some(current_url + 1)
    ELSE None

\* lines 154-168: the URL of the next round of the loop, None to end it;
\* urljoin(base_url, next_href) is the URL the link leads to
NextUrl(soup, current_url) ==
    IF soup.pagination
    THEN IF IsSome(soup.next)
         THEN IF Truthy(Get(soup.next)) /\ Get(Get(soup.next)) # StrHash
              THEN Some(current_url + 1)
              ELSE None
         ELSE None
    ELSE None

\* the locals of get_all_pages
PagesLocal(current_url, page_num, total_pages) ==
    Some([current_url |-> current_url, page_num |-> page_num, total_pages |-> total_pages])

InitPages ==
    /\ pc = "detect_total_pages"
    /\ arg \in [site : Sites, reported : ReportedCounts]
    /\ pages = <<>>
    /\ all_posts = <<>>
    /\ v2_local = None
    /\ hashfn = <<>>
    /\ self_posts = <<>>
    /\ self_metadata = None
    /\ ret = Returned(<<>>)
    /\ ret2 = Returned(<<>>)
    /\ MainIdle

\* lines 128-137: total_pages, pages = [], current_url = base_url,
\* page_num = 1
PagesDetect ==
    /\ pc = "detect_total_pages"
    /\ v2_local' = PagesLocal(Some(1), 1, detect_total_pages(arg.site, arg.reported))
    /\ pc' = "loop"
    /\ UNCHANGED <<pages, all_posts, mainVars, fnVars, hashfn, self_posts, self_metadata>>

\* lines 139-171: one round of the loop: the page is fetched; if that fails
\* the loop is left and the pages are returned, else the page is appended
\* and the next URL taken from its 'Next page' link
PagesRound ==
    /\ pc = "loop"
    /\ IsSome(Get(v2_local).current_url)
    /\ IF ~IsSome(fetch_page(arg.site, Get(Get(v2_local).current_url)))
       THEN /\ pc' = "returned"
            /\ ret' = Returned(pages)
            /\ UNCHANGED <<pages, v2_local>>
       ELSE /\ pages' = Append(pages, Get(fetch_page(arg.site, Get(Get(v2_local).current_url))))
            /\ v2_local' =
                 PagesLocal(NextUrl(Get(fetch_page(arg.site, Get(Get(v2_local).current_url))),
                                    Get(Get(v2_local).current_url)),
                            IF IsSome(NextUrl(Get(fetch_page(arg.site,
                                                             Get(Get(v2_local).current_url))),
                                              Get(Get(v2_local).current_url)))
                            THEN Get(v2_local).page_num + 1
                            ELSE Get(v2_local).page_num,
                            Get(v2_local).total_pages)
            /\ UNCHANGED <<pc, ret>>
    /\ UNCHANGED <<all_posts, mainVars, arg, ret2, hashfn, self_posts, self_metadata>>

\* lines 139 and 175: current_url is None, the pages are returned
PagesReturn ==
    /\ pc = "loop"
    /\ ~IsSome(Get(v2_local).current_url)
    /\ pc' = "returned"
    /\ ret' = Returned(pages)
    /\ UNCHANGED <<pages, all_posts, mainVars, arg, ret2, v2Vars>>

NextPages == PagesDetect \/ PagesRound \/ PagesReturn

SpecPages == InitPages /\ [][NextPages]_vars

\* get_all_pages runs on: no step of it waits for anything but the answer
\* of the server, which comes or times out (timeout=10)
SpecPagesFair == SpecPages /\ WF_vars(NextPages)

\* the pages of the chain a run reaches: page k is reached when every page
\* before it was fetched and has a 'Next page' link with an href other than
\* '' and '#' in a pagination block
Reached(site) ==
    { k \in 1..Len(site) :
        /\ site[k].ok
        /\ \A j \in 1..(k - 1) :
             /\ site[j].ok
             /\ site[j].pagination
             /\ site[j].next \notin {None, Some(None), Some(Some(<<>>)), Some(Some(StrHash))} }

=============================================================================
